---------------------------- MODULE Spec2Model ----------------------------
(***************************************************************************)
(* Model of the PDF metadata extraction pipelines of this repository:     *)
(*   - metadata_extractor/src          (Document AI -> Textract chain)     *)
(*   - MOST-up-to-date-ai/main.py      (MetadataExtractor batch run)       *)
(*   - MOST-up-to-date-ai/extract_metadata.py (single-file script)         *)
(* Texts, file names and field values are sequences of one-character      *)
(* strings; a Python dict is a function from its keys to its values.      *)
(***************************************************************************)
EXTENDS Integers, Sequences, FiniteSets, TLC

VARIABLES
    files,      \* the folder listing: sequence of [name, exists]
    idx,        \* number of listing entries the batch loop has consumed
    pc,         \* position of the running program
    env,        \* what the outside world answers while the current document is processed
    calls,      \* provider invocations made for the current document, in order
    data,       \* the dict parse_with_docai returned / process_pdf built
    results,    \* records collected by the batch (process_folder's results, main's rows)
    handed,     \* every record handed to a sink, in order, as [name, rec]
    remote,     \* remote sink: the write requests issued, in order
    localf,     \* local file sink: the batches written to the local file, in order
    sinkCalls,  \* sink entry points invoked, in order
    failed,     \* names of the documents reported as failed
    status,     \* how the run ended: "running", "ok", "error" (exception / exit code)
    args,       \* the arguments of the run
    queue,      \* process_folder's sorted list of PDF files
    platform    \* [today, pad, nocase]: the date of the run, whether the C library
                \* pads years, whether the file system matches names without case

vars == <<files, idx, pc, env, calls, data, results, handed, remote, localf,
          sinkCalls, failed, status, args, queue, platform>>

---------------------------------------------------------------------------
(* Bounds of the model *)

MaxFiles == 2

---------------------------------------------------------------------------
(* Character strings *)

EMPTY == <<>>
UNKNOWN == <<"U", "N", "K", "N", "O", "W", "N">>
NL == "\n"

IsSpaceCh(c) == c \in {" ", NL, "\t"}

RECURSIVE LStrip(_)
LStrip(s) == IF s # <<>> /\ IsSpaceCh(Head(s)) THEN LStrip(Tail(s)) ELSE s

RECURSIVE RStrip(_)
RStrip(s) ==
    IF s # <<>> /\ IsSpaceCh(s[Len(s)]) THEN RStrip(SubSeq(s, 1, Len(s) - 1)) ELSE s

\* str.strip()
Strip(s) == RStrip(LStrip(s))

\* s[:n]
Prefix(s, n) == SubSeq(s, 1, IF Len(s) < n THEN Len(s) ELSE n)

\* str.split('\n'): the pieces between newlines, empty pieces included
RECURSIVE SplitNL(_, _)
SplitNL(s, cur) ==
    IF s = <<>> THEN <<cur>>
    ELSE IF Head(s) = NL THEN <<cur>> \o SplitNL(Tail(s), <<>>)
    ELSE SplitNL(Tail(s), Append(cur, Head(s)))

\* [line.strip() for line in text.split('\n') if line.strip()]
RECURSIVE NonBlank(_)
NonBlank(ls) ==
    IF ls = <<>> THEN <<>>
    ELSE IF Strip(Head(ls)) # <<>> THEN <<Strip(Head(ls))>> \o NonBlank(Tail(ls))
    ELSE NonBlank(Tail(ls))

UPPER == <<"A", "B", "C", "D", "E", "F", "G", "H", "I", "J", "K", "L", "M", "N", "O", "P", "Q", "R", "S", "T", "U", "V", "W", "X", "Y", "Z">>
LOWER == <<"a", "b", "c", "d", "e", "f", "g", "h", "i", "j", "k", "l", "m", "n", "o", "p", "q", "r", "s", "t", "u", "v", "w", "x", "y", "z">>

LowerCh(c) ==
    IF \E i \in 1..Len(UPPER) : UPPER[i] = c
    THEN LOWER[CHOOSE i \in 1..Len(UPPER) : UPPER[i] = c]
    ELSE c

\* str.lower()
Lower(s) == [i \in 1..Len(s) |-> LowerCh(s[i])]

\* str.endswith(suf)
EndsWith(s, suf) ==
    Len(s) >= Len(suf) /\ SubSeq(s, Len(s) - Len(suf) + 1, Len(s)) = suf

DOTPDF == <<".", "p", "d", "f">>

\* position of the last '.' of s, 0 when there is none
RECURSIVE LastDot(_, _)
LastDot(s, i) == IF i = 0 THEN 0 ELSE IF s[i] = "." THEN i ELSE LastDot(s, i - 1)

\* name.rsplit('.', 1)[0]
RSplitDotHead(s) ==
    IF LastDot(s, Len(s)) = 0 THEN s ELSE SubSeq(s, 1, LastDot(s, Len(s)) - 1)

\* os.path.splitext(name)[0]: a leading dot does not start an extension
SplitExtRoot(s) ==
    IF LastDot(s, Len(s)) <= 1 THEN s ELSE SubSeq(s, 1, LastDot(s, Len(s)) - 1)

---------------------------------------------------------------------------
(* Python dicts *)

EmptyDict == [k \in {} |-> EMPTY]

\* d.get(k, "")
Get(d, k) == IF k \in DOMAIN d THEN d[k] ELSE EMPTY

\* "not d" for a dict
Falsy(d) == DOMAIN d = {}

\* d.update(e)
Update(d, e) == [k \in (DOMAIN d) \cup (DOMAIN e) |-> IF k \in DOMAIN e THEN e[k] ELSE d[k]]

---------------------------------------------------------------------------
(* Regular-expression primitives (Python re), on character sequences *)

Digits == {"0", "1", "2", "3", "4", "5", "6", "7", "8", "9"}

Letters ==
    {"a", "b", "c", "d", "e", "f", "g", "h", "i", "j", "k", "l", "m", "n", "o",
     "p", "q", "r", "s", "t", "u", "v", "w", "x", "y", "z",
     "A", "B", "C", "D", "E", "F", "G", "H", "I", "J", "K", "L", "M", "N", "O",
     "P", "Q", "R", "S", "T", "U", "V", "W", "X", "Y", "Z"}

IsDigit(c) == c \in Digits

\* \w
IsWordCh(c) == c \in Digits \cup Letters \cup {"_"}

WordAt(s, i) == i >= 1 /\ i <= Len(s) /\ IsWordCh(s[i])

\* \b between positions p-1 and p
Boundary(s, p) == WordAt(s, p - 1) # WordAt(s, p)

\* number of consecutive digits of s from position i on
RECURSIVE DigitRun(_, _)
DigitRun(s, i) ==
    IF i >= 1 /\ i <= Len(s) /\ IsDigit(s[i]) THEN 1 + DigitRun(s, i + 1) ELSE 0

\* number of consecutive whitespace characters of s from position i on
RECURSIVE SpaceRun(_, _)
SpaceRun(s, i) ==
    IF i >= 1 /\ i <= Len(s) /\ IsSpaceCh(s[i]) THEN 1 + SpaceRun(s, i + 1) ELSE 0

\* number of consecutive letters of s from position i on
RECURSIVE LetterRun(_, _)
LetterRun(s, i) ==
    IF i >= 1 /\ i <= Len(s) /\ s[i] \in Letters THEN 1 + LetterRun(s, i + 1) ELSE 0

IsSep(s, i) == i >= 1 /\ i <= Len(s) /\ s[i] \in {"/", "-"}

\* s has the literal lit at position i
HasAt(s, i, lit) == i >= 1 /\ i + Len(lit) - 1 <= Len(s) /\ SubSeq(s, i, i + Len(lit) - 1) = lit

\* re.search: the leftmost position from i on at which M (position -> match
\* length, 0 for no match) matches, as <<position, length>>; <<0, 0>> if none
RECURSIVE Search(_, _, _)
Search(M(_), s, i) ==
    IF i > Len(s) THEN <<0, 0>>
    ELSE IF M(i) > 0 THEN <<i, M(i)>>
    ELSE Search(M, s, i + 1)

Matched(s, m) == SubSeq(s, m[1], m[1] + m[2] - 1)

\* \b \d{lo1,hi1} [/-] \d{lo2,hi2} [/-] \d{lo3,hi3} \b at position i: every
\* digit group is a whole run of digits (a separator or a \b must follow it)
NumSepMatch(s, i, lo1, hi1, lo2, hi2, lo3, hi3) ==
    LET a == DigitRun(s, i)
        b == DigitRun(s, i + a + 1)
        c == DigitRun(s, i + a + b + 2)
    IN  IF /\ Boundary(s, i)
           /\ a >= lo1 /\ a <= hi1 /\ IsSep(s, i + a)
           /\ b >= lo2 /\ b <= hi2 /\ IsSep(s, i + a + b + 1)
           /\ c >= lo3 /\ c <= hi3 /\ Boundary(s, i + a + b + c + 2)
        THEN a + b + c + 2 ELSE 0

\* \b \d{4} \b at position i
YearMatch(s, i) ==
    IF Boundary(s, i) /\ DigitRun(s, i) = 4 /\ Boundary(s, i + 4) THEN 4 ELSE 0

\* \b \d{1,2} \s+ [A-Za-z]+ \s+ \d{4} \b at position i
DayMonthYearMatch(s, i) ==
    LET a == DigitRun(s, i)
        w1 == SpaceRun(s, i + a)
        l == LetterRun(s, i + a + w1)
        w2 == SpaceRun(s, i + a + w1 + l)
        y == DigitRun(s, i + a + w1 + l + w2)
    IN  IF /\ Boundary(s, i)
           /\ a \in {1, 2} /\ w1 >= 1 /\ l >= 1 /\ w2 >= 1 /\ y = 4
           /\ Boundary(s, i + a + w1 + l + w2 + 4)
        THEN a + w1 + l + w2 + 4 ELSE 0

---------------------------------------------------------------------------
(* Numbers and calendar *)

DigitVal(c) ==
    CASE c = "0" -> 0 [] c = "1" -> 1 [] c = "2" -> 2 [] c = "3" -> 3 [] c = "4" -> 4
      [] c = "5" -> 5 [] c = "6" -> 6 [] c = "7" -> 7 [] c = "8" -> 8 [] c = "9" -> 9

DigitCh(n) ==
    CASE n = 0 -> "0" [] n = 1 -> "1" [] n = 2 -> "2" [] n = 3 -> "3" [] n = 4 -> "4"
      [] n = 5 -> "5" [] n = 6 -> "6" [] n = 7 -> "7" [] n = 8 -> "8" [] n = 9 -> "9"

\* int(s) for a sequence of digits
RECURSIVE ToInt(_)
ToInt(s) == IF s = <<>> THEN 0 ELSE 10 * ToInt(SubSeq(s, 1, Len(s) - 1)) + DigitVal(s[Len(s)])

\* decimal digits of n, no padding
RECURSIVE ToDigits(_)
ToDigits(n) == IF n < 10 THEN <<DigitCh(n)>> ELSE Append(ToDigits(n \div 10), DigitCh(n % 10))

\* n zero-padded to at least w digits
RECURSIVE Pad(_, _)
Pad(d, w) == IF Len(d) >= w THEN d ELSE Pad(<<"0">> \o d, w)

IsLeap(y) == (y % 4 = 0 /\ y % 100 # 0) \/ y % 400 = 0

\* calendar.monthrange(y, m)[1]
DaysIn(y, m) ==
    IF m = 2 THEN (IF IsLeap(y) THEN 29 ELSE 28)
    ELSE IF m \in {4, 6, 9, 11} THEN 30 ELSE 31

\* datetime(y, m, d) is constructible
ValidDate(y, m, d) ==
    /\ y >= 1 /\ y <= 9999
    /\ m >= 1 /\ m <= 12
    /\ d >= 1 /\ d <= DaysIn(y, m)

\* strftime("%Y"): the C library pads the year to four digits or not (pad)
FmtYear(y, pad) == IF pad THEN Pad(ToDigits(y), 4) ELSE ToDigits(y)

\* dt.strftime("%Y<sep>%m<sep>%d")
Strftime(y, m, d, sep, pad) ==
    FmtYear(y, pad) \o <<sep>> \o Pad(ToDigits(m), 2) \o <<sep>> \o Pad(ToDigits(d), 2)

---------------------------------------------------------------------------
(* dateutil.parser.parse(date_str, dayfirst=True, yearfirst=False), for the
   strings the date regex can match.  A result is [ok, y, m, d]; ok = FALSE
   stands for the ParserError (a ValueError) the parser raises.  today is
   the date of the run: the parser fills missing fields from it and uses
   its year to place two-digit years. *)

Failed == [ok |-> FALSE, y |-> 0, m |-> 0, d |-> 0]

\* parserinfo.convertyear: a year below 100 without a century is placed
\* within fifty years of the current year
ConvertYear(year, century_specified, today) ==
    IF year < 100 /\ ~century_specified
    THEN LET c == year + (today.y \div 100) * 100
         IN  IF c >= today.y + 50 THEN c - 100
             ELSE IF c < today.y - 50 THEN c + 100
             ELSE c
    ELSE year

\* parser._build_naive: default.replace(year, month, day) of the fields found
BuildNaive(y, m, d) ==
    IF ValidDate(y, m, d) THEN [ok |-> TRUE, y |-> y, m |-> m, d |-> d] ELSE Failed

\* _ymd.resolve_ymd for three numbers, none marked as month, the third one
\* perhaps marked as year; yields <<year, month, day>>
ResolveYMD3(v1, v2, v3, dayfirst) ==
    IF v1 > 31
    THEN (IF dayfirst /\ v3 <= 12 THEN <<v1, v3, v2>> ELSE <<v1, v2, v3>>)
    ELSE IF v1 > 12 \/ (dayfirst /\ v2 <= 12) THEN <<v3, v2, v1>>
    ELSE <<v3, v1, v2>>

\* a lone number of four digits: a value above 100 is the year, one above 31
\* a year without century, anything else the day of the current month
ParseLoneNumber(str, today) ==
    LET v == ToInt(str)
        yr == IF v > 100 THEN v
              ELSE IF v > 31 THEN ConvertYear(v, FALSE, today)
              ELSE today.y
        dy == IF v > 31 THEN (IF today.d > DaysIn(yr, today.m) THEN DaysIn(yr, today.m)
                              ELSE today.d)
              ELSE v
    IN  IF yr < 1 \/ yr > 9999 THEN Failed ELSE BuildNaive(yr, today.m, dy)

\* a/b/c: the third number counts as a year with its century when it is
\* written with more than two digits (same separator twice) or is above 100
\* (a different second separator makes it a token of its own)
ParseThreeNumbers(str, today) ==
    LET a == DigitRun(str, 1)
        b == DigitRun(str, a + 2)
        v1 == ToInt(SubSeq(str, 1, a))
        v2 == ToInt(SubSeq(str, a + 2, a + b + 1))
        cs == SubSeq(str, a + b + 3, Len(str))
        v3 == ToInt(cs)
        century == IF str[a + 1] = str[a + b + 2] THEN Len(cs) > 2 ELSE v3 > 100
        ymd == ResolveYMD3(v1, v2, v3, TRUE)
    IN  BuildNaive(ConvertYear(ymd[1], century, today), ymd[2], ymd[3])

ParseDate(str, today) ==
    IF DigitRun(str, 1) = Len(str) THEN ParseLoneNumber(str, today)
    ELSE ParseThreeNumbers(str, today)

---------------------------------------------------------------------------
(* Date extraction of MOST-up-to-date-ai *)

\* r"\b(\d{1,2}[/-]\d{1,2}[/-]\d{2,4}|\d{4})\b" at position i
DatePatternAt(s, i) ==
    IF NumSepMatch(s, i, 1, 2, 1, 2, 2, 4) > 0 THEN NumSepMatch(s, i, 1, 2, 1, 2, 2, 4)
    ELSE YearMatch(s, i)

DateSearch(text) == LET M(i) == DatePatternAt(text, i) IN Search(M, text, 1)

\* metadata_extractor/utils/date_helpers.py
regex_date(text, today, pad) ==
    IF text = <<>> THEN UNKNOWN
    ELSE LET m == DateSearch(text)
         IN  IF m[2] > 0
             THEN LET dt == ParseDate(Matched(text, m), today)
                  IN  IF dt.ok THEN Strftime(dt.y, dt.m, dt.d, "/", pad)
                      ELSE Matched(text, m)
             ELSE UNKNOWN

\* extract_metadata.py
script_regex_date(text, today, pad) ==
    LET m == DateSearch(text)
    IN  IF m[2] > 0
        THEN LET dt == ParseDate(Matched(text, m), today)
             IN  IF dt.ok THEN Strftime(dt.y, dt.m, dt.d, "/", pad)
                 ELSE Matched(text, m)
        ELSE UNKNOWN

---------------------------------------------------------------------------
(* Date extraction of metadata_extractor/src/ocr_textract_llm.py *)

MonthNames == <<<<"j", "a", "n", "u", "a", "r", "y">>,
               <<"f", "e", "b", "r", "u", "a", "r", "y">>,
               <<"m", "a", "r", "c", "h">>,
               <<"a", "p", "r", "i", "l">>,
               <<"m", "a", "y">>,
               <<"j", "u", "n", "e">>,
               <<"j", "u", "l", "y">>,
               <<"a", "u", "g", "u", "s", "t">>,
               <<"s", "e", "p", "t", "e", "m", "b", "e", "r">>,
               <<"o", "c", "t", "o", "b", "e", "r">>,
               <<"n", "o", "v", "e", "m", "b", "e", "r">>,
               <<"d", "e", "c", "e", "m", "b", "e", "r">>>>

\* %B: the month whose full name is l, compared without case; 0 if none
MonthNum(l) ==
    IF \E k \in 1..12 : MonthNames[k] = Lower(l)
    THEN CHOOSE k \in 1..12 : MonthNames[k] = Lower(l)
    ELSE 0

\* datetime.strptime(str, "%Y<sep>%m<sep>%d")
StrptimeYMD(str, sep) ==
    LET a == DigitRun(str, 1)
        b == DigitRun(str, a + 2)
        c == DigitRun(str, a + b + 3)
    IN  IF /\ a = 4 /\ b \in {1, 2} /\ c \in {1, 2} /\ Len(str) = a + b + c + 2
           /\ str[a + 1] = sep /\ str[a + b + 2] = sep
        THEN BuildNaive(ToInt(SubSeq(str, 1, 4)), ToInt(SubSeq(str, a + 2, a + b + 1)),
                        ToInt(SubSeq(str, a + b + 3, Len(str))))
        ELSE Failed

\* datetime.strptime(str, "%m/%d/%Y")
StrptimeMDY(str) ==
    LET a == DigitRun(str, 1)
        b == DigitRun(str, a + 2)
        c == DigitRun(str, a + b + 3)
    IN  IF /\ a \in {1, 2} /\ b \in {1, 2} /\ c = 4 /\ Len(str) = a + b + c + 2
           /\ str[a + 1] = "/" /\ str[a + b + 2] = "/"
        THEN BuildNaive(ToInt(SubSeq(str, a + b + 3, Len(str))), ToInt(SubSeq(str, 1, a)),
                        ToInt(SubSeq(str, a + 2, a + b + 1)))
        ELSE Failed

\* datetime.strptime(str, "%d %B %Y")
StrptimeDBY(str) ==
    LET a == DigitRun(str, 1)
        w1 == SpaceRun(str, a + 1)
        l == LetterRun(str, a + w1 + 1)
        w2 == SpaceRun(str, a + w1 + l + 1)
        y == DigitRun(str, a + w1 + l + w2 + 1)
    IN  IF /\ a \in {1, 2} /\ w1 >= 1 /\ l >= 1 /\ w2 >= 1 /\ y = 4
           /\ Len(str) = a + w1 + l + w2 + y
        THEN BuildNaive(ToInt(SubSeq(str, a + w1 + l + w2 + 1, Len(str))),
                        MonthNum(SubSeq(str, a + w1 + 1, a + w1 + l)),
                        ToInt(SubSeq(str, 1, a)))
        ELSE Failed

\* the formats of the loop, in order; "%B %d, %Y" needs a leading letter and
\* every matched string starts with a digit
TryFormats(str) ==
    IF StrptimeYMD(str, "-").ok THEN StrptimeYMD(str, "-")
    ELSE IF StrptimeYMD(str, "/").ok THEN StrptimeYMD(str, "/")
    ELSE IF StrptimeMDY(str).ok THEN StrptimeMDY(str)
    ELSE StrptimeDBY(str)

\* date_patterns[k] at position i
LegacyPatternAt(k, s, i) ==
    CASE k = 1 -> NumSepMatch(s, i, 4, 4, 1, 2, 1, 2)
      [] k = 2 -> NumSepMatch(s, i, 1, 2, 1, 2, 2, 4)
      [] k = 3 -> DayMonthYearMatch(s, i)

\* the loop over date_patterns from pattern k on: the first pattern whose
\* leftmost match parses sets the date; otherwise the date stays ''
RECURSIVE LegacyDateFrom(_, _, _)
LegacyDateFrom(k, text, pad) ==
    IF k > 3 THEN EMPTY
    ELSE LET M(i) == LegacyPatternAt(k, text, i)
             m == Search(M, text, 1)
             dt == TryFormats(Matched(text, m))
         IN  IF m[2] > 0 /\ dt.ok /\ Strftime(dt.y, dt.m, dt.d, "-", pad) # EMPTY
             THEN Strftime(dt.y, dt.m, dt.d, "-", pad)
             ELSE LegacyDateFrom(k + 1, text, pad)

legacy_date(text, pad) == LegacyDateFrom(1, text, pad)

---------------------------------------------------------------------------
(* Field extraction of metadata_extractor/src/ocr_textract_llm.py *)

\* whether \s*(\d+)\b matches at position j
NumTail(s, j) ==
    LET w == SpaceRun(s, j)
        n == DigitRun(s, j + w)
    IN  n >= 1 /\ Boundary(s, j + w + n)

\* \b <one of lits> \s* (\d+) \b at position i, the literals tried longest
\* first, a shorter one only when the number does not follow the longer one
RECURSIVE LitNumMatch(_, _, _)
LitNumMatch(s, i, lits) ==
    IF lits = <<>> \/ ~Boundary(s, i) THEN 0
    ELSE IF HasAt(s, i, Head(lits)) /\ NumTail(s, i + Len(Head(lits)))
         THEN Len(Head(lits)) + SpaceRun(s, i + Len(Head(lits)))
              + DigitRun(s, i + Len(Head(lits)) + SpaceRun(s, i + Len(Head(lits))))
         ELSE LitNumMatch(s, i, Tail(lits))

\* group(1) of a match m of such a pattern: its trailing digits
RECURSIVE TrailingDigits(_)
TrailingDigits(str) ==
    IF str # <<>> /\ IsDigit(str[Len(str)])
    THEN Append(TrailingDigits(SubSeq(str, 1, Len(str) - 1)), str[Len(str)])
    ELSE <<>>

\* vol_issue_patterns: the literal prefixes of each pattern, the optional
\* part present first
VolIssuePatterns ==
    << [lits |-> << <<"V", "o", "l", ".">>, <<"v", "o", "l", ".">>,
                    <<"V", "o", "l">>, <<"v", "o", "l">> >>, field |-> "Volume"],
       [lits |-> << <<"V", "o", "l", "u", "m", "e">>, <<"v", "o", "l", "u", "m", "e">>,
                    <<"V">>, <<"v">> >>, field |-> "Volume"],
       [lits |-> << <<"N", "o", ".">>, <<"n", "o", ".">>,
                    <<"N", "o">>, <<"n", "o">> >>, field |-> "Issue"],
       [lits |-> << <<"I", "s", "s", "u", "e">>, <<"i", "s", "s", "u", "e">> >>,
        field |-> "Issue"] >>

\* the loop over vol_issue_patterns from pattern k on: every pattern that
\* matches assigns its field
RECURSIVE VolIssueFrom(_, _, _)
VolIssueFrom(k, text, metadata) ==
    IF k > Len(VolIssuePatterns) THEN metadata
    ELSE LET M(i) == LitNumMatch(text, i, VolIssuePatterns[k].lits)
             m == Search(M, text, 1)
         IN  IF m[2] > 0
             THEN VolIssueFrom(k + 1, text,
                    [metadata EXCEPT ![VolIssuePatterns[k].field] =
                                        TrailingDigits(Matched(text, m))])
             ELSE VolIssueFrom(k + 1, text, metadata)

\* the title: first non-blank line, trimmed, or the file name without extension
LegacyTitle(text, filename) ==
    LET lines == NonBlank(SplitNL(text, <<>>))
    IN  IF lines # <<>> THEN lines[1] ELSE SplitExtRoot(filename)

DescriptionBudgetTextract == 200
DescriptionBudgetDocai == 500

extract_metadata_from_text(text, filename, pad) ==
    VolIssueFrom(1, text,
        [Title |-> LegacyTitle(text, filename),
         Date |-> legacy_date(text, pad),
         Volume |-> EMPTY,
         Issue |-> EMPTY,
         Description |-> Prefix(text, DescriptionBudgetTextract)])

---------------------------------------------------------------------------
(* Inputs of the pipeline runs *)

FileNames == {<<"a", ".", "p", "d", "f">>, <<"B", ".", "P", "D", "F">>, <<"n", ".", "t", "x", "t">>}

Files == [name : FileNames, exists : BOOLEAN]

\* folder listings: at most MaxFiles entries, no name twice
Listings ==
    {l \in UNION {[1..n -> Files] : n \in 0..MaxFiles} :
        \A i, j \in DOMAIN l : i # j => l[i].name # l[j].name}

\* the date of the run
Today == [y |-> 2026, m |-> 11, d |-> 5]

Platforms == [today : {Today}, pad : BOOLEAN, nocase : BOOLEAN]

\* filename.lower().endswith('.pdf')
IsPdfName(name) == EndsWith(Lower(name), DOTPDF)

Current == files[idx + 1]

---------------------------------------------------------------------------
(* metadata_extractor/src: process_tab_pdfs -> process_pdf -> parse_with_docai
   -> parse_with_textract -> append_metadata *)

\* what Document AI answers: title, creation time (<<>> for none), text
DocaiResponses ==
    { [title |-> EMPTY, ctime |-> <<>>, text |-> EMPTY],
      [title |-> EMPTY, ctime |-> <<2020, 1, 2>>, text |-> <<"M", "i", "n", "u", "t", "e", "s", "\n", "V", "o", "l", " ", "2">>],
      [title |-> <<"M", "i", "n", "u", "t", "e", "s">>, ctime |-> <<2020, 1, 2>>, text |-> <<"M", "i", "n", "u", "t", "e", "s", "\n", "V", "o", "l", " ", "2">>] }

\* the LINE blocks Textract detects
TextractBlocks ==
    { <<>>,
      << <<" ">> >>,
      << <<"M", "i", "n", "u", "t", "e", "s">>, <<"2", "0", "2", "2", "-", "1", "2", "-", "3", "1">> >>,
      << <<"V", "o", "l", ".", " ", "3", " ", "N", "o", " ", "4">> >> }

DefaultResponse == [title |-> <<"M", "i", "n", "u", "t", "e", "s">>, ctime |-> <<2020, 1, 2>>, text |-> <<"M", "i", "n", "u", "t", "e", "s", "\n", "V", "o", "l", " ", "2">>]
DefaultBlocks == << <<"M", "i", "n", "u", "t", "e", "s">>, <<"2", "0", "2", "2", "-", "1", "2", "-", "3", "1">> >>

\* the world's answers while one document is processed: dinit - the Document AI
\* client can be built; docai - outcome of process_document; resp - its
\* response; tcall - the Textract client is built and its call succeeds;
\* blocks - what it detects; sink - the sheet write succeeds.  An answer nobody
\* asks for on the path the code takes has its default value.
LegacyEnvs ==
    {e \in [dinit : BOOLEAN, docai : {"ok", "denied", "apierr", "unexpected"},
            resp : DocaiResponses, tcall : BOOLEAN, blocks : TextractBlocks,
            sink : BOOLEAN] :
        /\ ~e.dinit => e.docai = "ok"
        /\ (~e.dinit \/ e.docai # "ok") => e.resp = DefaultResponse
        /\ (e.dinit /\ e.docai = "ok") => (e.tcall /\ e.blocks = DefaultBlocks)
        /\ ~e.tcall => e.blocks = DefaultBlocks}

NoEnv == [dinit |-> TRUE, docai |-> "ok", resp |-> DefaultResponse, tcall |-> TRUE,
          blocks |-> DefaultBlocks, sink |-> TRUE]

\* names bound in module ocr_docai that a handler can call
DocaiModuleNames == {"parse_with_docai", "parse_with_textract"}

\* evaluating an unbound global name raises NameError
RaisesNameError(name) == name \notin DocaiModuleNames

\* the metadata dict built from a Document AI response
DocaiMetadata(resp) ==
    [Title |-> resp.title,
     Date |-> IF resp.ctime = <<>> THEN EMPTY
              ELSE Strftime(resp.ctime[1], resp.ctime[2], resp.ctime[3], "-", TRUE),
     Volume |-> EMPTY,
     Issue |-> EMPTY,
     Description |-> Prefix(resp.text, DescriptionBudgetDocai)]

\* text += item['Text'] + '\n' for every LINE block
RECURSIVE JoinBlocks(_)
JoinBlocks(blocks) ==
    IF blocks = <<>> THEN <<>> ELSE Head(blocks) \o <<NL>> \o JoinBlocks(Tail(blocks))

\* extract_text_with_textract: '' on any error
extract_text_with_textract(file, e) ==
    IF e.tcall /\ file.exists THEN Strip(JoinBlocks(e.blocks)) ELSE EMPTY

\* parse_with_textract
parse_with_textract(file, e, pad) ==
    IF extract_text_with_textract(file, e) = EMPTY THEN EmptyDict
    ELSE extract_metadata_from_text(extract_text_with_textract(file, e), file.name, pad)

\* process_pdf's record when nothing was extracted
FallbackRecord(name) ==
    [Title |-> RSplitDotHead(name), Date |-> EMPTY, Volume |-> EMPTY,
     Issue |-> EMPTY, Description |-> EMPTY]

FF1 == <<"F", "F", "1">>
SHEET1 == <<"S", "h", "e", "e", "t", "1">>
AI_EXTRACTED == <<"A", "I", " ", "E", "x", "t", "r", "a", "c", "t", "e", "d">>

\* append_metadata's row
MetadataRow(d, ff_number) ==
    <<ff_number, Get(d, "Title"), Get(d, "Date"), Get(d, "Volume"), Get(d, "Issue"),
      Get(d, "Description"), EMPTY, AI_EXTRACTED>>

InitLegacy ==
    /\ files \in Listings
    /\ platform \in {p \in Platforms : ~p.nocase}
    /\ idx = 0
    /\ pc = "idle"
    /\ env = NoEnv
    /\ calls = <<>>
    /\ data = EmptyDict
    /\ results = <<>>
    /\ handed = <<>>
    /\ remote = <<>>
    /\ localf = <<>>
    /\ sinkCalls = <<>>
    /\ failed = {}
    /\ status = "running"
    /\ args = [tab |-> SHEET1, ff |-> FF1]
    /\ queue = <<>>

\* process_tab_pdfs: a listing entry that is no PDF is passed over
L_Skip ==
    /\ pc = "idle" /\ idx < Len(files)
    /\ ~IsPdfName(Current.name)
    /\ idx' = idx + 1
    /\ UNCHANGED <<files, pc, env, calls, data, results, handed, remote, localf,
                   sinkCalls, failed, status, args, queue, platform>>

\* process_tab_pdfs calls process_pdf, which calls parse_with_docai
L_ProcessPdf ==
    /\ pc = "idle" /\ idx < Len(files)
    /\ IsPdfName(Current.name)
    /\ \E e \in LegacyEnvs : env' = e
    /\ data' = EmptyDict
    /\ pc' = "docai_init"
    /\ UNCHANGED <<files, idx, calls, results, handed, remote, localf, sinkCalls,
                   failed, status, args, queue, platform>>

\* parse_with_docai: build the client; an exception goes to the outer handler
L_DocaiInit ==
    /\ pc = "docai_init"
    /\ pc' = IF env.dinit THEN "docai_open" ELSE "outer_except"
    /\ UNCHANGED <<files, idx, env, calls, data, results, handed, remote, localf,
                   sinkCalls, failed, status, args, queue, platform>>

\* parse_with_docai: read the file; an exception goes to the outer handler
L_DocaiOpen ==
    /\ pc = "docai_open"
    /\ pc' = IF Current.exists THEN "docai_call" ELSE "outer_except"
    /\ UNCHANGED <<files, idx, env, calls, data, results, handed, remote, localf,
                   sinkCalls, failed, status, args, queue, platform>>

\* parse_with_docai: process_document and the metadata built from its answer
L_DocaiCall ==
    /\ pc = "docai_call"
    /\ calls' = Append(calls, [doc |-> idx + 1, provider |-> "docai"])
    /\ IF env.docai = "ok"
       THEN data' = DocaiMetadata(env.resp) /\ pc' = "returned"
       ELSE /\ data' = data
            /\ pc' = IF env.docai \in {"denied", "apierr"} THEN "except_api"
                     ELSE "except_any"
    /\ UNCHANGED <<files, idx, env, results, handed, remote, localf, sinkCalls,
                   failed, status, args, queue, platform>>

\* variant: the handler tries Document AI once more
L_ExceptApi_Retry ==
    /\ pc = "except_api"
    /\ pc' = "docai_call"
    /\ UNCHANGED <<files, idx, env, calls, data, results, handed, remote, localf,
                   sinkCalls, failed, status, args, queue, platform>>

\* except (GoogleAPICallError, PermissionDenied): return parse_with_textract_llm(...)
L_ExceptApi ==
    /\ pc = "except_api"
    /\ pc' = IF RaisesNameError("parse_with_textract_llm") THEN "outer_except"
             ELSE "textract"
    /\ UNCHANGED <<files, idx, env, calls, data, results, handed, remote, localf,
                   sinkCalls, failed, status, args, queue, platform>>

\* except Exception: return parse_with_textract_llm(...)
L_ExceptAny ==
    /\ pc = "except_any"
    /\ pc' = IF RaisesNameError("parse_with_textract_llm") THEN "outer_except"
             ELSE "textract"
    /\ UNCHANGED <<files, idx, env, calls, data, results, handed, remote, localf,
                   sinkCalls, failed, status, args, queue, platform>>

\* variant: the outer handler logs and returns an empty dict
L_OuterExcept_NoFallback ==
    /\ pc = "outer_except"
    /\ pc' = "returned"
    /\ data' = EmptyDict
    /\ UNCHANGED <<files, idx, env, calls, results, handed, remote, localf,
                   sinkCalls, failed, status, args, queue, platform>>

\* the outer except Exception: return parse_with_textract(pdf_path)
L_OuterExcept ==
    /\ pc = "outer_except"
    /\ pc' = "textract"
    /\ UNCHANGED <<files, idx, env, calls, data, results, handed, remote, localf,
                   sinkCalls, failed, status, args, queue, platform>>

\* variant: extract_text_with_textract lets its exception escape
L_Textract_Raises ==
    /\ pc = "textract"
    /\ calls' = Append(calls, [doc |-> idx + 1, provider |-> "textract"])
    /\ IF env.tcall /\ Current.exists
       THEN /\ data' = parse_with_textract(Current, env, platform.pad)
            /\ pc' = "returned"
            /\ status' = status
       ELSE /\ data' = data
            /\ pc' = "done"
            /\ status' = "error"
    /\ UNCHANGED <<files, idx, env, results, handed, remote, localf, sinkCalls,
                   failed, args, queue, platform>>

\* parse_with_textract, whose result parse_with_docai returns
L_Textract ==
    /\ pc = "textract"
    /\ calls' = Append(calls, [doc |-> idx + 1, provider |-> "textract"])
    /\ data' = parse_with_textract(Current, env, platform.pad)
    /\ pc' = "returned"
    /\ UNCHANGED <<files, idx, env, results, handed, remote, localf, sinkCalls,
                   failed, status, args, queue, platform>>

\* variant: an error of the sheet write leaves append_metadata and ends the run
L_Sink_Raises ==
    /\ pc = "returned"
    /\ LET d == IF Falsy(data) THEN FallbackRecord(Current.name) ELSE data
       IN  /\ data' = d
           /\ handed' = Append(handed, [name |-> Current.name, rec |-> d])
           /\ remote' = IF env.sink
                      THEN Append(remote, [op |-> "append_row", tab |-> args.tab,
                                           values |-> <<MetadataRow(d, args.ff)>>])
                      ELSE remote
    /\ results' = IF env.sink
                  THEN Append(results, [fn |-> "append_metadata", raised |-> FALSE, ret |-> TRUE])
                  ELSE Append(results, [fn |-> "append_metadata", raised |-> TRUE, ret |-> FALSE])
    /\ sinkCalls' = Append(sinkCalls, "append_metadata")
    /\ idx' = IF env.sink THEN idx + 1 ELSE idx
    /\ pc' = IF env.sink THEN "idle" ELSE "done"
    /\ status' = IF env.sink THEN status ELSE "error"
    /\ UNCHANGED <<files, env, calls, localf, failed, args, queue, platform>>

\* process_pdf after parse_with_docai returned: the fallback record for an
\* empty result, then append_metadata, which returns True after append_row
\* and False after any exception
L_Sink ==
    /\ pc = "returned"
    /\ LET d == IF Falsy(data) THEN FallbackRecord(Current.name) ELSE data
       IN  /\ data' = d
           /\ handed' = Append(handed, [name |-> Current.name, rec |-> d])
           /\ remote' = IF env.sink
                      THEN Append(remote, [op |-> "append_row", tab |-> args.tab,
                                           values |-> <<MetadataRow(d, args.ff)>>])
                      ELSE remote
    /\ results' = Append(results, [fn |-> "append_metadata", raised |-> FALSE,
                                   ret |-> env.sink])
    /\ sinkCalls' = Append(sinkCalls, "append_metadata")
    /\ idx' = idx + 1
    /\ pc' = "idle"
    /\ UNCHANGED <<files, env, calls, localf, failed, status, args, queue, platform>>

\* process_tab_pdfs returns
L_Done ==
    /\ pc = "idle" /\ idx = Len(files)
    /\ pc' = "done"
    /\ status' = "ok"
    /\ UNCHANGED <<files, idx, env, calls, data, results, handed, remote, localf,
                   sinkCalls, failed, args, queue, platform>>

NextLegacy ==
    \/ L_Skip
    \/ L_ProcessPdf
    \/ L_DocaiInit
    \/ L_DocaiOpen
    \/ L_DocaiCall
    \/ L_ExceptApi
    \/ L_ExceptAny
    \/ L_OuterExcept
    \/ L_Textract
    \/ L_Sink
    \/ L_Done

SpecLegacy == InitLegacy /\ [][NextLegacy]_vars

---------------------------------------------------------------------------
(* MOST-up-to-date-ai: OCR (metadata_extractor/utils/ocr_helpers.py and
   extract_metadata.py).  A page is [txt, confs, blank]: the text Tesseract
   reads, its per-word confidences (-1 for a box without a word) and
   whether the thresholded image has no foreground pixel. *)

Pages ==
    { [txt |-> EMPTY, confs |-> <<-1>>, blank |-> TRUE],
      [txt |-> <<"M", "i", "n", "u", "t", "e", "s", "\n", "2", "0", "2", "2", "-", "1", "2", "-", "3", "1", "\n">>, confs |-> <<96, 91, -1>>, blank |-> FALSE],
      [txt |-> <<"V", "o", "l", " ", "2", "\n">>, confs |-> <<80>>, blank |-> FALSE] }

\* what pdf2image makes of a file: it raises ("raise") or yields pages
OcrInputs ==
    {[raises |-> TRUE, pages |-> <<>>]} \cup
    {[raises |-> FALSE, pages |-> ps] :
        ps \in { <<>>,
                 << [txt |-> EMPTY, confs |-> <<-1>>, blank |-> TRUE] >>,
                 << [txt |-> <<"M", "i", "n", "u", "t", "e", "s", "\n", "2", "0", "2", "2", "-", "1", "2", "-", "3", "1", "\n">>, confs |-> <<96, 91, -1>>, blank |-> FALSE] >>,
                 << [txt |-> <<"M", "i", "n", "u", "t", "e", "s", "\n", "2", "0", "2", "2", "-", "1", "2", "-", "3", "1", "\n">>, confs |-> <<96, 91, -1>>, blank |-> FALSE],
                    [txt |-> <<"V", "o", "l", " ", "2", "\n">>, confs |-> <<80>>, blank |-> FALSE] >> }}

\* full_text += txt + "\n\n" for every page
RECURSIVE PagesText(_)
PagesText(ps) ==
    IF ps = <<>> THEN <<>> ELSE Head(ps).txt \o <<NL, NL>> \o PagesText(Tail(ps))

\* the word confidences that count: ci >= 0
RECURSIVE ValidConfs(_)
ValidConfs(cs) ==
    IF cs = <<>> THEN <<>>
    ELSE IF Head(cs) >= 0 THEN <<Head(cs)>> \o ValidConfs(Tail(cs))
    ELSE ValidConfs(Tail(cs))

RECURSIVE Sum(_)
Sum(ns) == IF ns = <<>> THEN 0 ELSE Head(ns) + Sum(Tail(ns))

\* fractions <<numerator, denominator>>
FracAdd(p, q) == <<p[1] * q[2] + q[1] * p[2], p[2] * q[2]>>

\* a page's average: sum(word_confs)/len(word_confs), 0 without valid words
PageAvg(page) ==
    IF ValidConfs(page.confs) = <<>> THEN <<0, 1>>
    ELSE <<Sum(ValidConfs(page.confs)), Len(ValidConfs(page.confs))>>

RECURSIVE SumAvgs(_)
SumAvgs(ps) == IF ps = <<>> THEN <<0, 1>> ELSE FracAdd(PageAvg(Head(ps)), SumAvgs(Tail(ps)))

\* AvgConf without the division by len(confs)
AvgConf_Sum(ps) == SumAvgs(ps)

\* avg_conf = sum(confs)/len(confs) if confs else 0
AvgConf(ps) ==
    IF ps = <<>> THEN <<0, 1>> ELSE <<SumAvgs(ps)[1], SumAvgs(ps)[2] * Len(ps)>>

\* f"{confidence:.1f}%": tenths rounded to nearest, ties to even
FmtConf(c) ==
    LET t == (10 * c[1]) \div c[2]
        r == 10 * c[1] - t * c[2]
        tenths == IF 2 * r > c[2] \/ (2 * r = c[2] /\ t % 2 = 1) THEN t + 1 ELSE t
    IN  ToDigits(tenths \div 10) \o <<".">> \o ToDigits(tenths % 10) \o <<"%">>

\* ocr_helpers.preprocess_page: the thresholded image, rotated by the angle
\* of cv2.minAreaRect when it has a white pixel ("if len(coords) > 0")
preprocess_page(page) ==
    [raised |-> FALSE, image |-> IF page.blank THEN "thresholded" ELSE "deskewed"]

\* extract_metadata.preprocess_page: cv2.minAreaRect(coords) without a test;
\* it raises for an empty point set
script_preprocess_page(page) ==
    IF page.blank THEN [raised |-> TRUE, image |-> "none"]
    ELSE [raised |-> FALSE, image |-> "deskewed"]

\* ocr_helpers.ocr_pdf: [raised, text, conf]; an exception of a page's
\* preprocessing is raised again
ocr_pdf(file, o) ==
    IF ~file.exists \/ o.raises \/ (\E i \in DOMAIN o.pages : preprocess_page(o.pages[i]).raised)
    THEN [raised |-> TRUE, text |-> EMPTY, conf |-> <<0, 1>>]
    ELSE [raised |-> FALSE, text |-> Strip(PagesText(o.pages)), conf |-> AvgConf(o.pages)]

\* extract_metadata.ocr_pdf: an exception of preprocess_page propagates; the
\* text is not stripped
script_ocr_pdf(file, o) ==
    IF ~file.exists \/ o.raises
       \/ (\E i \in DOMAIN o.pages : script_preprocess_page(o.pages[i]).raised)
    THEN [raised |-> TRUE, text |-> EMPTY, conf |-> <<0, 1>>]
    ELSE [raised |-> FALSE, text |-> PagesText(o.pages), conf |-> AvgConf(o.pages)]

---------------------------------------------------------------------------
(* MOST-up-to-date-ai: field extraction *)

\* str.splitlines() on "\n"-separated text: no empty last piece
SplitLines(text) ==
    IF text = <<>> THEN <<>>
    ELSE IF text[Len(text)] = NL THEN SplitNL(SubSeq(text, 1, Len(text) - 1), <<>>)
    ELSE SplitNL(text, <<>>)

\* full_text.replace("\n", " ")
CollapseNL(text) == [i \in 1..Len(text) |-> IF text[i] = NL THEN " " ELSE text[i]]

DescriptionBudgetSimple == 100

\* first non-blank line, first 100 characters, regex date
TitleDescDate(full_text, date) ==
    [Title |-> IF NonBlank(SplitLines(full_text)) # <<>>
               THEN NonBlank(SplitLines(full_text))[1] ELSE UNKNOWN,
     Description |-> IF Strip(Prefix(CollapseNL(full_text), DescriptionBudgetSimple)) # EMPTY
                     THEN Strip(Prefix(CollapseNL(full_text), DescriptionBudgetSimple))
                     ELSE UNKNOWN,
     Date |-> date]

\* extract_metadata.simple_metadata
script_simple_metadata(full_text, today, pad) ==
    TitleDescDate(full_text, script_regex_date(full_text, today, pad))

\* date_helpers.py, first definition of simple_metadata (lines 49-93); the
\* second definition of the same name replaces it when the module is loaded
simple_metadata_first(full_text, today, pad) ==
    IF full_text = EMPTY
    THEN [Title |-> UNKNOWN, Description |-> UNKNOWN, Date |-> UNKNOWN]
    ELSE TitleDescDate(full_text, regex_date(full_text, today, pad))

\* names bound in module date_helpers
DateHelpersModuleNames ==
    {"re", "logging", "datetime", "parse_date", "ParserError", "logger",
     "regex_date", "simple_metadata"}

\* date_helpers.simple_metadata as imported (lines 95-126): {} for empty
\* text, otherwise it calls extract_date, a name the module does not bind
simple_metadata(text, today, pad) ==
    IF text = EMPTY THEN [raised |-> FALSE, val |-> EmptyDict]
    ELSE IF "extract_date" \notin DateHelpersModuleNames
         THEN [raised |-> TRUE, val |-> EmptyDict]
         ELSE [raised |-> FALSE, val |-> EmptyDict]

---------------------------------------------------------------------------
(* MOST-up-to-date-ai/main.py: MetadataExtractor.process_pdf *)

\* datetime.strptime(str, "%d/%m/%Y")
StrptimeDMY(str) ==
    LET a == DigitRun(str, 1)
        b == DigitRun(str, a + 2)
        c == DigitRun(str, a + b + 3)
    IN  IF /\ a \in {1, 2} /\ b \in {1, 2} /\ c = 4 /\ Len(str) = a + b + c + 2
           /\ str[a + 1] = "/" /\ str[a + b + 2] = "/"
        THEN BuildNaive(ToInt(SubSeq(str, a + b + 3, Len(str))),
                        ToInt(SubSeq(str, a + 2, a + b + 1)), ToInt(SubSeq(str, 1, a)))
        ELSE Failed

\* the formats process_pdf tries on an extracted date, in order
ParseDocDate(str) ==
    IF StrptimeYMD(str, "/").ok THEN StrptimeYMD(str, "/")
    ELSE IF StrptimeYMD(str, "-").ok THEN StrptimeYMD(str, "-")
    ELSE IF StrptimeMDY(str).ok THEN StrptimeMDY(str)
    ELSE StrptimeDMY(str)

YEAR_01_01 == <<"/", "0", "1", "/", "0", "1">>

\* the Document Date of a record: the year's first day unless the extracted
\* Date is a year or parses as a full date
DocumentDate(metadata, year, pad) ==
    IF "Date" \in DOMAIN metadata /\ metadata["Date"] # EMPTY
    THEN LET doc_date == metadata["Date"]
         IN  IF Len(doc_date) = 4 /\ DigitRun(doc_date, 1) = 4
             THEN doc_date \o YEAR_01_01
             ELSE IF ParseDocDate(doc_date).ok
                  THEN Strftime(ParseDocDate(doc_date).y, ParseDocDate(doc_date).m,
                                ParseDocDate(doc_date).d, "/", pad)
                  ELSE ToDigits(year) \o YEAR_01_01
    ELSE ToDigits(year) \o YEAR_01_01

\* process_pdf: [ok, rec]; ok = FALSE stands for the None it returns for a
\* missing file or an exception
process_pdf(file, o, year, folder_number, today, pad) ==
    LET ocr == ocr_pdf(file, o)
        sm == simple_metadata(ocr.text, today, pad)
        metadata == Update(sm.val,
                      ("Filename" :> file.name) @@
                      ("Confidence" :> FmtConf(ocr.conf)) @@
                      ("Folder Number" :> folder_number) @@
                      ("Year" :> ToDigits(year)) @@
                      ("Document Date" :> ToDigits(year) \o YEAR_01_01))
    IN  IF ~file.exists \/ ocr.raised \/ sm.raised
        THEN [ok |-> FALSE, rec |-> EmptyDict]
        ELSE [ok |-> TRUE,
              rec |-> [metadata EXCEPT !["Document Date"] = DocumentDate(metadata, year, pad)]]

---------------------------------------------------------------------------
(* MOST-up-to-date-ai/main.py: the batch run of main() from line 303 on,
   with the arguments in args: MetadataExtractor(), process_folder, then
   save_metadata or update_sheets *)

\* the characters in code-point order
ASCII == <<"\n", " ", "%", "-", ".", "/", "0", "1", "2", "3", "4", "5", "6", "7", "8", "9", "A", "B", "C", "D", "E", "F", "G", "H", "I", "J", "K", "L", "M", "N", "O", "P", "Q", "R", "S", "T", "U", "V", "W", "X", "Y", "Z", "_", "a", "b", "c", "d", "e", "f", "g", "h", "i", "j", "k", "l", "m", "n", "o", "p", "q", "r", "s", "t", "u", "v", "w", "x", "y", "z">>

Ord(c) == CHOOSE i \in 1..Len(ASCII) : ASCII[i] = c

\* s < t for str
RECURSIVE StrLess(_, _)
StrLess(s, t) ==
    IF t = <<>> THEN FALSE
    ELSE IF s = <<>> THEN TRUE
    ELSE IF Head(s) = Head(t) THEN StrLess(Tail(s), Tail(t))
    ELSE Ord(Head(s)) < Ord(Head(t))

\* the order of Path objects: by name, without case where the file system has none
PathLess(f, g) ==
    IF platform.nocase THEN StrLess(Lower(f.name), Lower(g.name))
    ELSE StrLess(f.name, g.name)

\* folder_path.glob("*.pdf"), in listing order
RECURSIVE GlobPdf(_)
GlobPdf(l) ==
    IF l = <<>> THEN <<>>
    ELSE IF EndsWith(IF platform.nocase THEN Lower(Head(l).name) ELSE Head(l).name, DOTPDF)
         THEN <<Head(l)>> \o GlobPdf(Tail(l))
         ELSE GlobPdf(Tail(l))

\* the option strings parse_arguments declares, in order
OptionStrings ==
    <<"--folder", "--tab", "--start-row", "--offline", "--output", "--year",
      "--folder-number", "--start-row", "--offline", "--output">>

\* add_argument raises ArgumentError for an option string declared before;
\* the runs below therefore start where main() has its args, at line 303
OptionConflict ==
    \E i, j \in DOMAIN OptionStrings : i < j /\ OptionStrings[i] = OptionStrings[j]

\* config.SPREADSHEET_ID and an id given to the constructor
SPREADSHEET_ID == "1ipTfzA5qK8V7BvzuO-hiFCbG50qjhcQP_igndLquEj8"
OTHER_SPREADSHEET_ID == "test_spreadsheet_123"

DEFAULT_TAB == <<"d", "e", "f", "a", "u", "l", "t">>
BOX_TAB == <<"B", "o", "x", "2", "7", "c">>
FF6 == <<"F", "F", "6">>
FOLDER_NAME == <<"B", "o", "x", "2", "7", "c">>

BatchYears == {1986}

MainArgs ==
    [tab : {DEFAULT_TAB, BOX_TAB}, offline : BOOLEAN, year : BatchYears,
     folder_number : {FF6}, start_row : {3}]

\* the columns save_metadata puts first
ColumnsOrder ==
    <<"Filename", "Title", "Description", "Document Date", "Year",
      "Folder Number", "Confidence", "Tab", "Folder">>

RECURSIVE KeysOf(_)
KeysOf(recs) == IF recs = <<>> THEN {} ELSE (DOMAIN Head(recs)) \cup KeysOf(Tail(recs))

\* df[columns_order] raises KeyError when a listed column is no column of df
ColumnsMissing(metadata_list) ==
    \E i \in DOMAIN ColumnsOrder : ColumnsOrder[i] \notin KeysOf(metadata_list)

\* update_sheets' rows: the seven values it reads from every record
SheetRow(meta) ==
    <<Get(meta, "Filename"), Get(meta, "Title"), Get(meta, "Description"),
      Get(meta, "Date"), Get(meta, "Volume"), Get(meta, "Issue"), Get(meta, "Confidence")>>

SheetRows(metadata_list) == [i \in DOMAIN metadata_list |-> SheetRow(metadata_list[i])]

\* variant: end_row = start_row + len(rows)
append_rows_to_tab_EndRowPlusOne(tab_name, rows, start_row, api) ==
    IF tab_name = EMPTY \/ rows = <<>>
    THEN [raised |-> FALSE, ret |-> FALSE, request |-> <<>>]
    ELSE [raised |-> FALSE, ret |-> api,
          request |-> << [op |-> "update", spreadsheetId |-> SPREADSHEET_ID,
                          tab |-> tab_name, first_col |-> "C",
                          first_row |-> start_row, last_col |-> "G",
                          last_row |-> start_row + Len(rows), values |-> rows,
                          done |-> api] >>]

\* SheetsClient.append_rows_to_tab: [raised, ret, request]; request is <<>>
\* when none is issued; api tells whether the API call succeeds
append_rows_to_tab(tab_name, rows, start_row, api) ==
    IF tab_name = EMPTY \/ rows = <<>>
    THEN [raised |-> FALSE, ret |-> FALSE, request |-> <<>>]
    ELSE [raised |-> FALSE, ret |-> api,
          request |-> << [op |-> "update", spreadsheetId |-> SPREADSHEET_ID,
                          tab |-> tab_name, first_col |-> "C",
                          first_row |-> start_row, last_col |-> "G",
                          last_row |-> start_row + Len(rows) - 1, values |-> rows,
                          done |-> api] >>]

\* names of the methods of MetadataExtractor
ExtractorMethods ==
    {"__init__", "process_pdf", "process_folder", "save_metadata", "update_sheets"}

\* Tab and Folder added to every record
WithTabFolder(metas, tab, folder) ==
    [i \in DOMAIN metas |-> Update(metas[i], [Tab |-> tab, Folder |-> folder])]

Named(metas) == [i \in DOMAIN metas |-> [name |-> metas[i]["Filename"], rec |-> metas[i]]]

InitMain ==
    /\ \E folder \in {"missing", "file", "dir"} :
         /\ env = [client |-> FALSE, folder |-> folder]
         /\ files \in Listings
         /\ folder # "dir" => files = <<>>
    /\ platform \in Platforms
    /\ args \in MainArgs
    /\ idx = 0
    /\ pc = "construct"
    /\ calls = <<>>
    /\ data = EmptyDict
    /\ results = <<>>
    /\ handed = <<>>
    /\ remote = <<>>
    /\ localf = <<>>
    /\ sinkCalls = <<>>
    /\ failed = {}
    /\ status = "running"
    /\ queue = <<>>

\* MetadataExtractor.__init__: SheetsClient() is built, or fails and leaves None
M_Construct ==
    /\ pc = "construct"
    /\ \E built \in BOOLEAN : env' = [env EXCEPT !.client = built]
    /\ pc' = "main"
    /\ UNCHANGED <<files, idx, calls, data, results, handed, remote, localf,
                   sinkCalls, failed, status, args, queue, platform>>

\* main: with the default tab and a client, the tabs are listed and main returns
M_ListTabs ==
    /\ pc = "main"
    /\ ~args.offline /\ args.tab = DEFAULT_TAB /\ env.client
    /\ pc' = "done"
    /\ status' = "ok"
    /\ UNCHANGED <<files, idx, env, calls, data, results, handed, remote, localf,
                   sinkCalls, failed, args, queue, platform>>

\* main: a missing folder is created and main returns, or exits with 1
M_FolderMissing ==
    /\ pc = "main"
    /\ ~(~args.offline /\ args.tab = DEFAULT_TAB /\ env.client)
    /\ env.folder = "missing"
    /\ \E made \in BOOLEAN : status' = IF made THEN "ok" ELSE "error"
    /\ pc' = "done"
    /\ UNCHANGED <<files, idx, env, calls, data, results, handed, remote, localf,
                   sinkCalls, failed, args, queue, platform>>

\* process_folder up to its loop: [] for no directory, else the sorted PDFs
M_ProcessFolder ==
    /\ pc = "main"
    /\ ~(~args.offline /\ args.tab = DEFAULT_TAB /\ env.client)
    /\ env.folder # "missing"
    /\ queue' = IF env.folder = "dir" THEN SortSeq(GlobPdf(files), PathLess) ELSE <<>>
    /\ pc' = "loop"
    /\ UNCHANGED <<files, idx, env, calls, data, results, handed, remote, localf,
                   sinkCalls, failed, status, args, platform>>

\* process_folder's loop body: process_pdf and "if meta: results.append(meta)"
M_ProcessPdf ==
    /\ pc = "loop" /\ idx < Len(queue)
    /\ \E o \in OcrInputs :
         LET r == process_pdf(queue[idx + 1], o, args.year, args.folder_number,
                              platform.today, platform.pad)
         IN  /\ results' = IF r.ok /\ ~Falsy(r.rec) THEN Append(results, r.rec) ELSE results
             /\ failed' = IF r.ok THEN failed ELSE failed \cup {queue[idx + 1].name}
    /\ idx' = idx + 1
    /\ UNCHANGED <<files, pc, env, calls, data, handed, remote, localf, sinkCalls,
                   status, args, queue, platform>>

\* M_FolderDone without main's "if not metas: return"
M_FolderDone_NoGuard ==
    /\ pc = "loop" /\ idx = Len(queue)
    /\ results' = WithTabFolder(results, args.tab, FOLDER_NAME)
    /\ pc' = IF args.offline \/ ~env.client THEN "save" ELSE "update"
    /\ UNCHANGED <<files, idx, env, calls, data, handed, remote, localf, sinkCalls,
                   failed, status, args, queue, platform>>

\* process_folder returns; main returns for an empty result, else adds Tab and
\* Folder and picks the sink
M_FolderDone ==
    /\ pc = "loop" /\ idx = Len(queue)
    /\ IF results = <<>>
       THEN /\ pc' = "done" /\ status' = "ok" /\ results' = results
       ELSE /\ results' = WithTabFolder(results, args.tab, FOLDER_NAME)
            /\ pc' = IF args.offline \/ ~env.client THEN "save" ELSE "update"
            /\ status' = status
    /\ UNCHANGED <<files, idx, env, calls, data, handed, remote, localf, sinkCalls,
                   failed, args, queue, platform>>

\* save_metadata(metas, output_file), its result dropped by main: False on
\* any exception (a missing column, a failed Excel or JSON write)
M_SaveMetadata ==
    /\ pc = "save"
    /\ handed' = handed \o Named(results)
    /\ \E io \in {"ok", "excel_fails", "json_fails"} :
         LET wrote == IF ColumnsMissing(results) \/ io = "excel_fails" THEN <<>>
                      ELSE IF io = "json_fails" THEN << [file |-> "xlsx", rows |-> results] >>
                      ELSE << [file |-> "xlsx", rows |-> results],
                              [file |-> "json", rows |-> results] >>
         IN  /\ localf' = localf \o wrote
             /\ sinkCalls' = Append(sinkCalls,
                    [sink |-> "save_metadata", n |-> Len(results),
                     ret |-> ~ColumnsMissing(results) /\ io = "ok"])
    /\ pc' = "done"
    /\ status' = "ok"
    /\ UNCHANGED <<files, idx, env, calls, data, results, remote, args, queue, failed,
                   platform>>

\* update_sheets(tab, metas, start_row), its result dropped by main: the
\* result of append_rows_to_tab; an exception of that call would lead to
\* self.save_to_json, which MetadataExtractor does not define
M_UpdateSheets ==
    /\ pc = "update"
    /\ handed' = handed \o Named(results)
    /\ \E api \in BOOLEAN :
         LET r == append_rows_to_tab(args.tab, SheetRows(results), args.start_row, api)
         IN  /\ remote' = remote \o r.request
             /\ sinkCalls' = Append(sinkCalls,
                    [sink |-> "update_sheets", n |-> Len(results), ret |-> r.ret])
             /\ status' = IF r.raised /\ "save_to_json" \notin ExtractorMethods
                          THEN "error" ELSE "ok"
    /\ pc' = "done"
    /\ UNCHANGED <<files, idx, env, calls, data, results, localf, args, queue, failed,
                   platform>>

NextMain ==
    \/ M_Construct
    \/ M_ListTabs
    \/ M_FolderMissing
    \/ M_ProcessFolder
    \/ M_ProcessPdf
    \/ M_FolderDone
    \/ M_SaveMetadata
    \/ M_UpdateSheets

SpecMain == InitMain /\ [][NextMain]_vars

---------------------------------------------------------------------------
(* MOST-up-to-date-ai/extract_metadata.py: main() for one tab and its folder *)

\* the row main builds of a document
ScriptRow(rec) ==
    <<rec["Filename"], rec["Title"], rec["Description"], rec["Date"], rec["Confidence"]>>

ScriptRows(recs) == [i \in DOMAIN recs |-> ScriptRow(recs[i])]

\* extract_metadata.append_rows_to_tab: the batchUpdate of C3:G<end>; an
\* exception of the API call propagates
script_append_rows_to_tab(tab_name, rows, api) ==
    [raised |-> ~api,
     request |-> [op |-> "update", tab |-> tab_name, first_col |-> "C", first_row |-> 3,
                  last_col |-> "G", last_row |-> 3 + Len(rows) - 1, values |-> rows,
                  done |-> api]]

InitScript ==
    /\ files \in Listings
    /\ platform \in {p \in Platforms : ~p.nocase}
    /\ env = [tabs |-> <<>>]
    /\ args = [tab |-> BOX_TAB]
    /\ idx = 0
    /\ pc = "fetch"
    /\ calls = <<>>
    /\ data = EmptyDict
    /\ results = <<>>
    /\ handed = <<>>
    /\ remote = <<>>
    /\ localf = <<>>
    /\ sinkCalls = <<>>
    /\ failed = {}
    /\ status = "running"
    /\ queue = <<>>

\* fetch_all_tab_names and the folder map: the call raises, or there is no
\* tab with a folder and main returns, or the loop over the folders starts
S_FetchTabs ==
    /\ pc = "fetch"
    /\ \E out \in {"raises", "no_tabs", "one_tab"} :
         /\ env' = [tabs |-> IF out = "one_tab" THEN <<args.tab>> ELSE <<>>]
         /\ pc' = IF out = "one_tab" THEN "folder" ELSE "done"
         /\ status' = CASE out = "raises" -> "error"
                        [] out = "no_tabs" -> "ok"
                        [] OTHER -> status
    /\ UNCHANGED <<files, idx, calls, data, results, handed, remote, localf, sinkCalls,
                   failed, args, queue, platform>>

\* the loop over os.listdir(path): a name that is no PDF is passed over
S_Skip ==
    /\ pc = "folder" /\ idx < Len(files)
    /\ ~IsPdfName(Current.name)
    /\ idx' = idx + 1
    /\ UNCHANGED <<files, pc, env, calls, data, results, handed, remote, localf,
                   sinkCalls, failed, status, args, queue, platform>>

\* the loop body for a PDF: ocr_pdf, simple_metadata, rows.append; nothing
\* catches what ocr_pdf raises, so main ends there
S_Ocr ==
    /\ pc = "folder" /\ idx < Len(files)
    /\ IsPdfName(Current.name)
    /\ \E o \in OcrInputs :
         LET ocr == script_ocr_pdf(Current, o)
             meta == script_simple_metadata(ocr.text, platform.today, platform.pad)
         IN  IF ocr.raised
             THEN /\ failed' = failed \cup {Current.name}
                  /\ status' = "error"
                  /\ pc' = "done"
                  /\ UNCHANGED <<results, idx>>
             ELSE /\ results' = Append(results,
                        Update(meta, [Filename |-> Current.name,
                                      Confidence |-> FmtConf(ocr.conf)]))
                  /\ idx' = idx + 1
                  /\ UNCHANGED <<failed, status, pc>>
    /\ UNCHANGED <<files, env, calls, data, handed, remote, localf, sinkCalls, args,
                   queue, platform>>

\* after the loop: "if rows:" append_rows_to_tab(tab, rows), whose exception
\* ends main; without rows the folder is passed over
S_FolderDone ==
    /\ pc = "folder" /\ idx = Len(files)
    /\ IF results # <<>>
       THEN \E api \in BOOLEAN :
              LET r == script_append_rows_to_tab(args.tab, ScriptRows(results), api)
              IN  /\ handed' = handed \o Named(results)
                  /\ remote' = Append(remote, r.request)
                  /\ sinkCalls' = Append(sinkCalls,
                         [sink |-> "append_rows_to_tab", n |-> Len(results), ret |-> api])
                  /\ status' = IF r.raised THEN "error" ELSE "ok"
       ELSE /\ status' = "ok"
            /\ UNCHANGED <<handed, remote, sinkCalls>>
    /\ pc' = "done"
    /\ UNCHANGED <<files, idx, env, calls, data, results, localf, failed, args, queue,
                   platform>>

NextScript ==
    \/ S_FetchTabs
    \/ S_Skip
    \/ S_Ocr
    \/ S_FolderDone

SpecScript == InitScript /\ [][NextScript]_vars

---------------------------------------------------------------------------
(* Date extraction on its own: one text, one of the three extractors *)

DateTexts ==
    { <<>>,
      <<"n", "o", " ", "d", "a", "t", "e">>,
      <<"Y", "e", "a", "r", " ", "2", "0", "2", "2">>,
      <<"R", "e", "p", "o", "r", "t", " ", "2", "0", "2", "2", "-", "1", "2", "-", "3", "1">>,
      <<"1", "2", "/", "3", "1", "/", "2", "0", "2", "2">>,
      <<"3", "1", "-", "1", "2", "-", "2", "2">>,
      <<"1", "3", "/", "1", "3", "/", "2", "0", "2", "0">>,
      <<"o", "n", " ", "5", "/", "6", "/", "0", "7", " ", "x">>,
      <<"0", "0", "0", "0">>,
      <<"9", "9", "9", "9", "9">>,
      <<"1", "/", "2", "/", "0", "0", "0", "5">>,
      <<"1", "2", "-", "3", "1", "-", "2", "0", "2", "2">>,
      <<"1", "5", " ", "M", "a", "r", "c", "h", " ", "2", "0", "2", "1">>,
      <<"2", "0", "2", "1", "/", "0", "2", "/", "3", "0">>,
      <<"i", "d", " ", "2", "0", "2", "2", "x">>,
      <<"3", "/", "4", "/", "2", "0", "2", "1", " ", "a", "n", "d", " ", "2", "0", "1", "9">>,
      <<"r", "e", "f", " ", "1", "/", "2", "/", "3", "4", "5", "6", "7">>,
      <<"1", "5", " ", "M", "a", "r", "z", "o", " ", "2", "0", "2", "1">> }

DateFileName == <<"a", ".", "p", "d", "f">>

InitDate ==
    /\ \E t \in DateTexts : data = [text |-> t]
    /\ platform \in {p \in Platforms : ~p.nocase}
    /\ files = <<>>
    /\ env = NoEnv
    /\ args = [tab |-> SHEET1, ff |-> FF1]
    /\ idx = 0
    /\ pc = "idle"
    /\ calls = <<>>
    /\ results = <<>>
    /\ handed = <<>>
    /\ remote = <<>>
    /\ localf = <<>>
    /\ sinkCalls = <<>>
    /\ failed = {}
    /\ status = "running"
    /\ queue = <<>>

\* the leftmost match of any of the three date_patterns (<<>> for none)
LegacyFound(text) ==
    LET M(i) == IF LegacyPatternAt(1, text, i) > 0 THEN LegacyPatternAt(1, text, i)
                ELSE IF LegacyPatternAt(2, text, i) > 0 THEN LegacyPatternAt(2, text, i)
                ELSE LegacyPatternAt(3, text, i)
    IN  Matched(text, Search(M, text, 1))

\* every result is recorded with the substring the extractor's patterns
\* found in the text (<<>> for none)
D_RegexDate ==
    /\ pc = "idle"
    /\ results' = << [fn |-> "regex_date",
                      out |-> regex_date(data.text, platform.today, platform.pad),
                      found |-> Matched(data.text, DateSearch(data.text))] >>
    /\ pc' = "done"
    /\ UNCHANGED <<files, idx, env, calls, data, handed, remote, localf, sinkCalls,
                   failed, status, args, queue, platform>>

D_ScriptRegexDate ==
    /\ pc = "idle"
    /\ results' = << [fn |-> "script_regex_date",
                      out |-> script_regex_date(data.text, platform.today, platform.pad),
                      found |-> Matched(data.text, DateSearch(data.text))] >>
    /\ pc' = "done"
    /\ UNCHANGED <<files, idx, env, calls, data, handed, remote, localf, sinkCalls,
                   failed, status, args, queue, platform>>

D_LegacyDate ==
    /\ pc = "idle"
    /\ results' = << [fn |-> "extract_metadata_from_text",
                      out |-> extract_metadata_from_text(data.text, DateFileName,
                                                         platform.pad)["Date"],
                      found |-> LegacyFound(data.text)] >>
    /\ pc' = "done"
    /\ UNCHANGED <<files, idx, env, calls, data, handed, remote, localf, sinkCalls,
                   failed, status, args, queue, platform>>

NextDate ==
    \/ D_RegexDate
    \/ D_ScriptRegexDate
    \/ D_LegacyDate

SpecDate == InitDate /\ [][NextDate]_vars

---------------------------------------------------------------------------
(* Field extraction on its own: one text, and up to MaxRuns runs of the
   extractors on it, every run on a day of its own *)

MaxRuns == 2

\* the days of the runs
RunDates == {Today, [y |-> 2027, m |-> 2, d |-> 28]}

FieldTexts ==
    { <<>>,
      <<" ", "\n", "\t", "\n">>,
      <<"M", "i", "n", "u", "t", "e", "s", "\n", "2", "0", "2", "2", "-", "1", "2", "-", "3", "1", "\n">>,
      <<"\n", " ", " ", "B", "o", "a", "r", "d", " ", "M", "i", "n", "u", "t", "e", "s", " ", "\n", "Y", "e", "a", "r", " ", "2", "0", "2", "2">>,
      <<"V", "o", "l", ".", " ", "2", " ", "V", "o", "l", "u", "m", "e", " ", "7">>,
      <<"N", "o", ".", " ", "3", " ", "I", "s", "s", "u", "e", " ", "9">>,
      <<"V", "o", "l", "u", "m", "e", " ", "7", "\n", "V", "o", "l", ".", " ", "2">>,
      <<"I", "s", "s", "u", "e", " ", "9", " ", "N", "o", " ", "3">>,
      <<"v", "o", "l", " ", "1", "2", " ", "n", "o", ".", " ", "4">>,
      <<"M", "i", "n", "u", "t", "e", "s", " ", "5", "/", "6", "/", "0", "7">>,
      <<"N", "o", "t", "e", "s", "\n", "\n", "V", " ", "3">> }

InitFields ==
    /\ \E t \in FieldTexts : data = [text |-> t]
    /\ platform \in {p \in Platforms : ~p.nocase}
    /\ files = <<>>
    /\ env = NoEnv
    /\ args = [tab |-> SHEET1, ff |-> FF1]
    /\ idx = 0
    /\ pc = "idle"
    /\ calls = <<>>
    /\ results = <<>>
    /\ handed = <<>>
    /\ remote = <<>>
    /\ localf = <<>>
    /\ sinkCalls = <<>>
    /\ failed = {}
    /\ status = "running"
    /\ queue = <<>>

\* extract_metadata.simple_metadata(text)
F_ScriptSimpleMetadata ==
    /\ Len(results) < MaxRuns
    /\ \E today \in RunDates :
         results' = Append(results,
             [fn |-> "script_simple_metadata", today |-> today, raised |-> FALSE,
              val |-> script_simple_metadata(data.text, today, platform.pad)])
    /\ UNCHANGED <<files, idx, pc, env, calls, data, handed, remote, localf, sinkCalls,
                   failed, status, args, queue, platform>>

\* date_helpers.simple_metadata(text), the function main.py imports
F_SimpleMetadata ==
    /\ Len(results) < MaxRuns
    /\ \E today \in RunDates :
         results' = Append(results,
             [fn |-> "simple_metadata", today |-> today,
              raised |-> simple_metadata(data.text, today, platform.pad).raised,
              val |-> simple_metadata(data.text, today, platform.pad).val])
    /\ UNCHANGED <<files, idx, pc, env, calls, data, handed, remote, localf, sinkCalls,
                   failed, status, args, queue, platform>>

\* ocr_textract_llm.extract_metadata_from_text(text, filename)
F_ExtractMetadataFromText ==
    /\ Len(results) < MaxRuns
    /\ \E today \in RunDates :
         results' = Append(results,
             [fn |-> "extract_metadata_from_text", today |-> today, raised |-> FALSE,
              val |-> extract_metadata_from_text(data.text, DateFileName, platform.pad)])
    /\ UNCHANGED <<files, idx, pc, env, calls, data, handed, remote, localf, sinkCalls,
                   failed, status, args, queue, platform>>

\* the metadata parse_with_docai builds of a document with this text, no
\* title and no creation time
F_DocaiMetadata ==
    /\ Len(results) < MaxRuns
    /\ \E today \in RunDates :
         results' = Append(results,
             [fn |-> "parse_with_docai", today |-> today, raised |-> FALSE,
              val |-> DocaiMetadata([title |-> EMPTY, ctime |-> <<>>, text |-> data.text])])
    /\ UNCHANGED <<files, idx, pc, env, calls, data, handed, remote, localf, sinkCalls,
                   failed, status, args, queue, platform>>

NextFields ==
    \/ F_ScriptSimpleMetadata
    \/ F_SimpleMetadata
    \/ F_ExtractMetadataFromText
    \/ F_DocaiMetadata

SpecFields == InitFields /\ [][NextFields]_vars

---------------------------------------------------------------------------
(* One document on its own: the two ocr_pdf functions and
   MetadataExtractor.process_pdf applied to a file and what OCR makes of it *)

MaxPages == 2

\* pages as Tesseract reads them, with scores from -1 to 100
DocPages ==
    Pages \cup
    { [txt |-> EMPTY, confs |-> <<-1>>, blank |-> FALSE],
      [txt |-> EMPTY, confs |-> <<>>, blank |-> FALSE],
      [txt |-> <<"x", "\n">>, confs |-> <<100, -1, 100>>, blank |-> FALSE],
      [txt |-> <<"3", "1", "/", "1", "2", "/", "2", "0", "2", "2", "\n">>, confs |-> <<0, 57>>, blank |-> FALSE] }

DocInputs ==
    {[raises |-> TRUE, pages |-> <<>>]} \cup
    {[raises |-> FALSE, pages |-> ps] : ps \in UNION {[1..n -> DocPages] : n \in 0..MaxPages}}

InitDoc ==
    /\ \E f \in Files, o \in DocInputs : data = [file |-> f, o |-> o]
    /\ platform \in {p \in Platforms : ~p.nocase}
    /\ args \in {a \in MainArgs : a.tab = BOX_TAB /\ ~a.offline}
    /\ files = <<>>
    /\ env = NoEnv
    /\ idx = 0
    /\ pc = "idle"
    /\ calls = <<>>
    /\ results = <<>>
    /\ handed = <<>>
    /\ remote = <<>>
    /\ localf = <<>>
    /\ sinkCalls = <<>>
    /\ failed = {}
    /\ status = "running"
    /\ queue = <<>>

\* ocr_helpers.ocr_pdf(pdf_path)
O_OcrPdf ==
    /\ pc = "idle"
    /\ results' = << [fn |-> "ocr_pdf", val |-> ocr_pdf(data.file, data.o)] >>
    /\ pc' = "done"
    /\ UNCHANGED <<files, idx, env, calls, data, handed, remote, localf, sinkCalls,
                   failed, status, args, queue, platform>>

\* extract_metadata.ocr_pdf(pdf_path)
O_ScriptOcrPdf ==
    /\ pc = "idle"
    /\ results' = << [fn |-> "script_ocr_pdf", val |-> script_ocr_pdf(data.file, data.o)] >>
    /\ pc' = "done"
    /\ UNCHANGED <<files, idx, env, calls, data, handed, remote, localf, sinkCalls,
                   failed, status, args, queue, platform>>

\* MetadataExtractor.process_pdf(pdf_path, year, folder_number)
O_ProcessPdf ==
    /\ pc = "idle"
    /\ results' = << [fn |-> "process_pdf",
                      val |-> process_pdf(data.file, data.o, args.year, args.folder_number,
                                          platform.today, platform.pad)] >>
    /\ pc' = "done"
    /\ UNCHANGED <<files, idx, env, calls, data, handed, remote, localf, sinkCalls,
                   failed, status, args, queue, platform>>

\* ocr_helpers.preprocess_page on one page of the document
O_PreprocessPage ==
    /\ pc = "idle"
    /\ ~data.o.raises
    /\ \E k \in DOMAIN data.o.pages :
         results' = << [fn |-> "preprocess_page", page |-> data.o.pages[k],
                        val |-> preprocess_page(data.o.pages[k])] >>
    /\ pc' = "done"
    /\ UNCHANGED <<files, idx, env, calls, data, handed, remote, localf, sinkCalls,
                   failed, status, args, queue, platform>>

\* extract_metadata.preprocess_page on one page of the document
O_ScriptPreprocessPage ==
    /\ pc = "idle"
    /\ ~data.o.raises
    /\ \E k \in DOMAIN data.o.pages :
         results' = << [fn |-> "script_preprocess_page", page |-> data.o.pages[k],
                        val |-> script_preprocess_page(data.o.pages[k])] >>
    /\ pc' = "done"
    /\ UNCHANGED <<files, idx, env, calls, data, handed, remote, localf, sinkCalls,
                   failed, status, args, queue, platform>>

NextDoc ==
    \/ O_OcrPdf
    \/ O_ScriptOcrPdf
    \/ O_ProcessPdf
    \/ O_PreprocessPage
    \/ O_ScriptPreprocessPage

SpecDoc == InitDoc /\ [][NextDoc]_vars

---------------------------------------------------------------------------
(* The two append_rows_to_tab functions on their own (SpecSheets) *)

MaxRows == 2

SheetTabs == {EMPTY, DEFAULT_TAB, BOX_TAB}

\* rows as update_sheets and main build them: lists of cell values
SheetRowValues ==
    { << <<"a", ".", "p", "d", "f">>, <<"M", "i", "n", "u", "t", "e", "s">> >>,
      << <<"b", ".", "p", "d", "f">>, UNKNOWN >> }

RowLists == UNION {[1..n -> SheetRowValues] : n \in 0..MaxRows}

\* --start-row is any int; 3 is the default
StartRows == {1, 3, 10}

SCRIPT_START_ROW == 3

InitSheets ==
    /\ \E t \in SheetTabs, rows \in RowLists, start_row \in StartRows :
         data = [tab |-> t, rows |-> rows, start_row |-> start_row]
    /\ platform \in {p \in Platforms : ~p.nocase /\ ~p.pad}
    /\ args = EmptyDict
    /\ files = <<>>
    /\ env = NoEnv
    /\ idx = 0
    /\ pc = "idle"
    /\ calls = <<>>
    /\ results = <<>>
    /\ handed = <<>>
    /\ remote = <<>>
    /\ localf = <<>>
    /\ sinkCalls = <<>>
    /\ failed = {}
    /\ status = "running"
    /\ queue = <<>>

\* SheetsClient.append_rows_to_tab(tab_name, rows, start_row); the API call
\* succeeds or raises
Sh_ClientAppendRows ==
    /\ pc = "idle"
    /\ \E api \in BOOLEAN :
         LET out == append_rows_to_tab(data.tab, data.rows, data.start_row, api)
         IN  /\ results' = << [fn |-> "SheetsClient.append_rows_to_tab",
                               start_row |-> data.start_row,
                               raised |-> out.raised, ret |-> out.ret] >>
             /\ remote' = out.request
    /\ pc' = "done"
    /\ UNCHANGED <<files, idx, env, calls, data, handed, localf, sinkCalls,
                   failed, status, args, queue, platform>>

\* extract_metadata.append_rows_to_tab(tab, rows) as main calls it: under
\* "if rows:", for a tab that names a folder; it returns None
Sh_ScriptAppendRows ==
    /\ pc = "idle"
    /\ data.tab # EMPTY
    /\ data.rows # <<>>
    /\ \E api \in BOOLEAN :
         LET out == script_append_rows_to_tab(data.tab, data.rows, api)
         IN  /\ results' = << [fn |-> "append_rows_to_tab",
                               start_row |-> SCRIPT_START_ROW,
                               raised |-> out.raised, ret |-> "None"] >>
             /\ remote' = << out.request >>
    /\ pc' = "done"
    /\ UNCHANGED <<files, idx, env, calls, data, handed, localf, sinkCalls,
                   failed, status, args, queue, platform>>

NextSheets ==
    \/ Sh_ClientAppendRows
    \/ Sh_ScriptAppendRows

SpecSheets == InitSheets /\ [][NextSheets]_vars

---------------------------------------------------------------------------
(* metadata_extractor/utils/sheets_client.py: one SheetsClient and the
   requests of its methods (SpecClient).  env.sid is the spreadsheet_id given
   to the constructor ("" for none), env.sheets the tabs of the
   spreadsheet with the rows values().get returns for column C; results
   holds the call made and what it returned, remote its requests. *)

MaxNames == 2
MaxUpdates == 2

\* self._spreadsheet_id = spreadsheet_id or SPREADSHEET_ID
ClientSpreadsheetId(spreadsheet_id) ==
    IF spreadsheet_id = "" THEN SPREADSHEET_ID ELSE spreadsheet_id

\* the last row of the range get_row_mapping reads
ROW_LIMIT == 1000

\* a column with a name in its first row and one in the row after the range
LongColumn ==
    [k \in 1..(ROW_LIMIT + 1) |->
        IF k = 1 THEN <<<<"a", ".", "p", "d", "f">>>>
        ELSE IF k = ROW_LIMIT + 1 THEN <<<<"n", ".", "t", "x", "t">>>>
        ELSE <<>>]

\* the rows of column C: [] for an empty row, [name] otherwise
ColumnsC ==
    { <<>>, LongColumn,
      << <<<<"a", ".", "p", "d", "f">>>>, <<>>, <<<<"B", ".", "P", "D", "F">>>>,
         <<<<"n", ".", "t", "x", "t">>>> >>,
      << <<<<"a", ".", "p", "d", "f">>>>, <<<<"B", ".", "P", "D", "F">>>>,
         <<<<"a", ".", "p", "d", "f">>>> >> }

ClientSheets ==
    {<<>>} \cup
    {<<[title |-> BOX_TAB, column |-> c]>> : c \in ColumnsC} \cup
    {<<[title |-> DEFAULT_TAB, column |-> <<>>], [title |-> BOX_TAB, column |-> c]>> :
        c \in ColumnsC}

ClientTabNames == {EMPTY, BOX_TAB, DEFAULT_TAB}

NameLists == UNION {[1..n -> FileNames] : n \in 0..MaxNames}

\* update dicts: with both keys, without 'values', without 'range'
UpdateDicts ==
    { [range |-> <<"A", "1">>, values |-> <<<<"x">>>>],
      [range |-> <<"B", "2">>, values |-> <<<<"y">>>>],
      [range |-> <<"A", "1">>],
      [values |-> <<<<"x">>>>] }

UpdateLists == UNION {[1..n -> UpdateDicts] : n \in 0..MaxUpdates}

Identifiers == {EMPTY, <<"p", "d", "f">>, <<"n", ".">>, <<"z">>}

\* the column of a tab of the spreadsheet; the tab exists or the request fails
HasTab(sheets, tab_name) == \E k \in DOMAIN sheets : sheets[k].title = tab_name

ColumnOf(sheets, tab_name) ==
    sheets[CHOOSE k \in DOMAIN sheets : sheets[k].title = tab_name].column

\* f"'{tab_name}'!{cells}"
A1Range(tab_name, cells) == <<"'">> \o tab_name \o <<"'", "!">> \o cells

\* get_all_tabs: one spreadsheets().get; [] when it fails
get_all_tabs(sheets, api) ==
    [raised |-> FALSE,
     ret |-> IF api THEN [k \in DOMAIN sheets |-> sheets[k].title] ELSE <<>>,
     request |-> << [op |-> "spreadsheets.get", spreadsheetId |-> SPREADSHEET_ID,
                     done |-> api] >>]

\* identifier in str(row[0]) for some row of the column
InColumn(identifier, column) ==
    \E i \in DOMAIN column :
        /\ column[i] # <<>>
        /\ \E j \in 1..(Len(column[i][1]) + 1) : HasAt(column[i][1], j, identifier)

\* find_tab_by_identifier's loop from tab k on; fail is the number of the
\* request that raises (0 for none), n the number of requests issued before
RECURSIVE FindFrom(_, _, _, _, _)
FindFrom(identifier, sheets, k, fail, n) ==
    IF k > Len(sheets) THEN [ret |-> "None", request |-> <<>>]
    ELSE LET req == [op |-> "values.get", spreadsheetId |-> SPREADSHEET_ID,
                     range |-> A1Range(sheets[k].title, <<"C", ":", "C">>),
                     done |-> fail # n + 1]
         IN  IF fail = n + 1 THEN [ret |-> "None", request |-> <<req>>]
             ELSE IF InColumn(identifier, sheets[k].column)
                  THEN [ret |-> sheets[k].title, request |-> <<req>>]
                  ELSE LET rest == FindFrom(identifier, sheets, k + 1, fail, n + 1)
                       IN  [ret |-> rest.ret, request |-> <<req>> \o rest.request]

\* find_tab_by_identifier: None for no identifier, else get_all_tabs and one
\* values().get per tab until the identifier is found; None after an exception
find_tab_by_identifier(identifier, sheets, fail) ==
    IF identifier = EMPTY THEN [raised |-> FALSE, ret |-> "None", request |-> <<>>]
    ELSE LET tabs == get_all_tabs(sheets, fail # 1)
             found == FindFrom(identifier, IF fail = 1 THEN <<>> ELSE sheets, 1, fail, 1)
         IN  [raised |-> FALSE, ret |-> found.ret, request |-> tabs.request \o found.request]

\* the last row of the column whose first cell is f (0 for none)
LastRowOf(f, column) ==
    LET hits == {i \in DOMAIN column : column[i] # <<>> /\ column[i][1] = f}
    IN  IF hits = {} THEN 0 ELSE CHOOSE i \in hits : \A j \in hits : j <= i

\* get_row_mapping: {} for no tab name or no filenames and after an
\* exception; else one values().get of C1:C1000 and the row of every listed
\* name found in it, a later row replacing an earlier one
get_row_mapping(sid, tab_name, filenames, sheets, api) ==
    IF tab_name = EMPTY \/ filenames = <<>>
    THEN [raised |-> FALSE, ret |-> EmptyDict, request |-> <<>>]
    ELSE LET ok == api /\ HasTab(sheets, tab_name)
             req == [op |-> "values.get", spreadsheetId |-> sid,
                     range |-> A1Range(tab_name, <<"C", "1", ":", "C">> \o ToDigits(ROW_LIMIT)),
                     done |-> ok]
             column == IF ok THEN Prefix(ColumnOf(sheets, tab_name), ROW_LIMIT) ELSE <<>>
             found == {filenames[i] : i \in DOMAIN filenames}
         IN  [raised |-> FALSE,
              ret |-> [f \in {g \in found : LastRowOf(g, column) > 0} |->
                          LastRowOf(f, column)],
              request |-> <<req>>]

\* the entries of data: one per update that has 'range' and 'values'
RECURSIVE BatchData(_, _)
BatchData(tab_name, updates) ==
    IF updates = <<>> THEN <<>>
    ELSE IF "range" \notin DOMAIN Head(updates) \/ "values" \notin DOMAIN Head(updates)
         THEN BatchData(tab_name, Tail(updates))
         ELSE <<[range |-> A1Range(tab_name, Head(updates).range),
                 values |-> Head(updates).values]>> \o BatchData(tab_name, Tail(updates))

\* variant: True as soon as there is something to send
batch_update_cells_AlwaysTrue(sid, tab_name, updates, api) ==
    IF tab_name = EMPTY \/ updates = <<>> \/ BatchData(tab_name, updates) = <<>>
    THEN [raised |-> FALSE, ret |-> FALSE, request |-> <<>>]
    ELSE [raised |-> FALSE, ret |-> TRUE,
          request |-> << [op |-> "values.batchUpdate", spreadsheetId |-> sid,
                          data |-> BatchData(tab_name, updates), done |-> api] >>]

\* batch_update_cells: False for no tab name, no updates or no entry; else
\* one values().batchUpdate, True when it succeeds and False after an exception
batch_update_cells(sid, tab_name, updates, api) ==
    IF tab_name = EMPTY \/ updates = <<>> \/ BatchData(tab_name, updates) = <<>>
    THEN [raised |-> FALSE, ret |-> FALSE, request |-> <<>>]
    ELSE [raised |-> FALSE, ret |-> api,
          request |-> << [op |-> "values.batchUpdate", spreadsheetId |-> sid,
                          data |-> BatchData(tab_name, updates), done |-> api] >>]



InitClient ==
    /\ \E sid \in {"", OTHER_SPREADSHEET_ID}, sheets \in ClientSheets :
         env = [sid |-> sid, sheets |-> sheets]
    /\ platform \in {p \in Platforms : ~p.nocase /\ ~p.pad}
    /\ args = EmptyDict
    /\ data = EmptyDict
    /\ files = <<>>
    /\ idx = 0
    /\ pc = "idle"
    /\ calls = <<>>
    /\ results = <<>>
    /\ handed = <<>>
    /\ remote = <<>>
    /\ localf = <<>>
    /\ sinkCalls = <<>>
    /\ failed = {}
    /\ status = "running"
    /\ queue = <<>>

Cl_GetAllTabs ==
    /\ pc = "idle"
    /\ \E api \in BOOLEAN :
         LET out == get_all_tabs(env.sheets, api)
         IN  /\ results' = << [fn |-> "get_all_tabs", raised |-> out.raised, ret |-> out.ret] >>
             /\ remote' = out.request
    /\ pc' = "done"
    /\ UNCHANGED <<files, idx, env, calls, data, handed, localf, sinkCalls,
                   failed, status, args, queue, platform>>

Cl_FindTabByIdentifier ==
    /\ pc = "idle"
    /\ \E identifier \in Identifiers, fail \in 0..(Len(env.sheets) + 1) :
         LET out == find_tab_by_identifier(identifier, env.sheets, fail)
         IN  /\ results' = << [fn |-> "find_tab_by_identifier", identifier |-> identifier,
                               raised |-> out.raised, ret |-> out.ret] >>
             /\ remote' = out.request
    /\ pc' = "done"
    /\ UNCHANGED <<files, idx, env, calls, data, handed, localf, sinkCalls,
                   failed, status, args, queue, platform>>

Cl_GetRowMapping ==
    /\ pc = "idle"
    /\ \E tab_name \in ClientTabNames, filenames \in NameLists, api \in BOOLEAN :
         LET out == get_row_mapping(ClientSpreadsheetId(env.sid), tab_name, filenames,
                                    env.sheets, api)
         IN  /\ results' = << [fn |-> "get_row_mapping", tab_name |-> tab_name,
                               filenames |-> filenames,
                               raised |-> out.raised, ret |-> out.ret] >>
             /\ remote' = out.request
    /\ pc' = "done"
    /\ UNCHANGED <<files, idx, env, calls, data, handed, localf, sinkCalls,
                   failed, status, args, queue, platform>>

Cl_BatchUpdateCells ==
    /\ pc = "idle"
    /\ \E tab_name \in ClientTabNames, updates \in UpdateLists, api \in BOOLEAN :
         LET out == batch_update_cells(ClientSpreadsheetId(env.sid), tab_name, updates, api)
         IN  /\ results' = << [fn |-> "batch_update_cells", tab_name |-> tab_name,
                               updates |-> updates,
                               raised |-> out.raised, ret |-> out.ret] >>
             /\ remote' = out.request
    /\ pc' = "done"
    /\ UNCHANGED <<files, idx, env, calls, data, handed, localf, sinkCalls,
                   failed, status, args, queue, platform>>

Cl_AppendRowsToTab ==
    /\ pc = "idle"
    /\ \E tab_name \in ClientTabNames, rows \in RowLists, start_row \in StartRows,
          api \in BOOLEAN :
         LET out == append_rows_to_tab(tab_name, rows, start_row, api)
         IN  /\ results' = << [fn |-> "append_rows_to_tab", tab_name |-> tab_name,
                               raised |-> out.raised, ret |-> out.ret] >>
             /\ remote' = out.request
    /\ pc' = "done"
    /\ UNCHANGED <<files, idx, env, calls, data, handed, localf, sinkCalls,
                   failed, status, args, queue, platform>>

NextClient ==
    \/ Cl_GetAllTabs
    \/ Cl_FindTabByIdentifier
    \/ Cl_GetRowMapping
    \/ Cl_BatchUpdateCells
    \/ Cl_AppendRowsToTab

SpecClient == InitClient /\ [][NextClient]_vars

---------------------------------------------------------------------------
(* Runs of the pipeline one after another on one tab (SpecAppend): data is
   the sheet, a function from row numbers to the values written in columns
   C to G; handed holds the batches whose write succeeded. *)

MaxBatches == 2

DEFAULT_START_ROW == 3

\* values().update of a range: the rows of the range get the values sent,
\* every other row keeps what it has
WriteRange(sheet, request) ==
    [r \in DOMAIN sheet \cup (request.first_row .. request.last_row) |->
        IF r \in request.first_row .. request.last_row
        THEN request.values[r - request.first_row + 1]
        ELSE sheet[r]]

\* the sheet after the requests that succeeded
RECURSIVE Written(_, _)
Written(sheet, requests) ==
    IF requests = <<>> THEN sheet
    ELSE Written(IF Head(requests).done THEN WriteRange(sheet, Head(requests)) ELSE sheet,
                 Tail(requests))

\* the batches of the requests that succeeded
RECURSIVE Batches(_)
Batches(requests) ==
    IF requests = <<>> THEN <<>>
    ELSE (IF Head(requests).done THEN <<Head(requests).values>> ELSE <<>>)
             \o Batches(Tail(requests))

InitAppend ==
    /\ args = [tab |-> BOX_TAB, start_row |-> DEFAULT_START_ROW]
    /\ platform \in {p \in Platforms : ~p.nocase /\ ~p.pad}
    /\ data = EmptyDict
    /\ env = NoEnv
    /\ files = <<>>
    /\ idx = 0
    /\ pc = "idle"
    /\ calls = <<>>
    /\ results = <<>>
    /\ handed = <<>>
    /\ remote = <<>>
    /\ localf = <<>>
    /\ sinkCalls = <<>>
    /\ failed = {}
    /\ status = "running"
    /\ queue = <<>>

\* a run of main.py: update_sheets(args.tab, metas, args.start_row) with the
\* rows of its batch
Ap_ClientAppendRows ==
    /\ idx < MaxBatches
    /\ \E rows \in RowLists \ {<<>>}, api \in BOOLEAN :
         LET out == append_rows_to_tab(args.tab, rows, args.start_row, api)
         IN  /\ remote' = remote \o out.request
             /\ data' = Written(data, out.request)
             /\ handed' = handed \o Batches(out.request)
             /\ results' = << [fn |-> "SheetsClient.append_rows_to_tab",
                               raised |-> out.raised, ret |-> out.ret] >>
    /\ idx' = idx + 1
    /\ UNCHANGED <<files, pc, env, calls, localf, sinkCalls, failed, status, args,
                   queue, platform>>

\* a run of extract_metadata.py: append_rows_to_tab(tab, rows)
Ap_ScriptAppendRows ==
    /\ idx < MaxBatches
    /\ \E rows \in RowLists \ {<<>>}, api \in BOOLEAN :
         LET out == script_append_rows_to_tab(args.tab, rows, api)
         IN  /\ remote' = Append(remote, out.request)
             /\ data' = Written(data, <<out.request>>)
             /\ handed' = handed \o Batches(<<out.request>>)
             /\ results' = << [fn |-> "append_rows_to_tab",
                               raised |-> out.raised, ret |-> "None"] >>
    /\ idx' = idx + 1
    /\ UNCHANGED <<files, pc, env, calls, localf, sinkCalls, failed, status, args,
                   queue, platform>>

NextAppend ==
    \/ Ap_ClientAppendRows
    \/ Ap_ScriptAppendRows

SpecAppend == InitAppend /\ [][NextAppend]_vars

---------------------------------------------------------------------------
(* metadata_extractor/src: main() for "process <tab> <ff>" up to the folder
   process_tab_pdfs reads (SpecFolders).  Folders are named relative to
   INPUT_DIR.  env.worksheets are the titles of the spreadsheet's tabs,
   localf the folders that exist, queue the folder ensure_folders_exist
   computed for each worksheet. *)

MaxTabs == 2

\* the characters of [<>:"/\\|?*]
InvalidFolderChars == {"<", ">", ":", "\"", "/", "\\", "|", "?", "*"}

\* re.sub(r'[<>:"/\\|?*]', '', name)
RECURSIVE RemoveInvalid(_)
RemoveInvalid(name) ==
    IF name = <<>> THEN <<>>
    ELSE IF Head(name) \in InvalidFolderChars THEN RemoveInvalid(Tail(name))
    ELSE <<Head(name)>> \o RemoveInvalid(Tail(name))

\* name.replace(' ', '_')
SpacesToUnderscores(name) == [i \in 1..Len(name) |-> IF name[i] = " " THEN "_" ELSE name[i]]

sanitize_folder_name(name) == Strip(SpacesToUnderscores(RemoveInvalid(name)))

TabTitles ==
    { <<"S", "h", "e", "e", "t", "1">>,
      <<"B", "o", "x", " ", "2", "7">>,
      <<"B", "o", "x", "_", "2", "7">>,
      <<"1", "9", "8", "6", ":", "A">> }

WorksheetLists == UNION {[1..n -> TabTitles] : n \in 1..MaxTabs}

\* folder names in the order ensure_folders_exist computes them
FoldersFor(worksheets) ==
    [k \in DOMAIN worksheets |->
        [tab |-> worksheets[k], folder |-> sanitize_folder_name(worksheets[k])]]

InitFolders ==
    /\ \E ws \in WorksheetLists, before \in SUBSET {<<"B", "o", "x", " ", "2", "7">>} :
         /\ env = [worksheets |-> ws]
         /\ localf = before
         /\ \E k \in DOMAIN ws : args = [tab |-> ws[k], ff |-> FF1]
    /\ platform \in {p \in Platforms : ~p.nocase /\ ~p.pad}
    /\ data = EmptyDict
    /\ files = <<>>
    /\ idx = 0
    /\ pc = "ensure"
    /\ calls = <<>>
    /\ results = <<>>
    /\ handed = <<>>
    /\ remote = <<>>
    /\ sinkCalls = <<>>
    /\ failed = {}
    /\ status = "running"
    /\ queue = <<>>

\* ensure_folders_exist: a folder for every worksheet, or the exception of
\* the spreadsheet call raised again, which ends main
Fo_EnsureFoldersExist ==
    /\ pc = "ensure"
    /\ \E api \in BOOLEAN :
         IF api
         THEN /\ queue' = FoldersFor(env.worksheets)
              /\ localf' = localf \cup {sanitize_folder_name(env.worksheets[k]) :
                                          k \in DOMAIN env.worksheets}
              /\ pc' = "process"
              /\ status' = status
         ELSE /\ pc' = "done"
              /\ status' = "error"
              /\ UNCHANGED <<queue, localf>>
    /\ UNCHANGED <<files, idx, env, calls, data, results, handed, remote, sinkCalls,
                   failed, args, platform>>

\* process_tab_pdfs: tab_dir = os.path.join(INPUT_DIR, tab_name), and the
\* return when it does not exist
Fo_ProcessTabPdfs ==
    /\ pc = "process"
    /\ results' = << [fn |-> "process_tab_pdfs", tab |-> args.tab, folder |-> args.tab,
                      found |-> args.tab \in localf] >>
    /\ pc' = "done"
    /\ status' = "ok"
    /\ UNCHANGED <<files, idx, env, calls, data, handed, remote, localf, sinkCalls,
                   failed, args, queue, platform>>

NextFolders ==
    \/ Fo_EnsureFoldersExist
    \/ Fo_ProcessTabPdfs

SpecFolders == InitFolders /\ [][NextFolders]_vars

---------------------------------------------------------------------------
(* Properties of the provider chain (SpecLegacy) *)

\* the providers invoked for the k-th listing entry, in order
RECURSIVE ProvidersIn(_, _)
ProvidersIn(log, k) ==
    IF log = <<>> THEN <<>>
    ELSE IF Head(log).doc = k THEN <<Head(log).provider>> \o ProvidersIn(Tail(log), k)
    ELSE ProvidersIn(Tail(log), k)

ProvidersOf(k) == ProvidersIn(calls, k)

\* Document AI can be reached for the current document
DocaiReachable == env.dinit /\ Current.exists

\* the text Textract yields for the current document
TextractText == IF env.tcall /\ Current.exists THEN Strip(JoinBlocks(env.blocks)) ELSE EMPTY

\* C1: when Document AI raises an authorization error and Textract succeeds,
\* parse_with_docai returns exactly the metadata of Textract's text, and
\* Document AI was invoked exactly once for that document.
C1_AuthErrorFallsBackToTextract ==
    (pc = "returned" /\ DocaiReachable /\ env.docai = "denied" /\ TextractText # EMPTY)
        => /\ data = extract_metadata_from_text(TextractText, Current.name, platform.pad)
           /\ ProvidersOf(idx + 1) = <<"docai", "textract">>

C1_Witness ==
    /\ pc = "returned" /\ DocaiReachable /\ env.docai = "denied"
    /\ TextractText # EMPTY
    /\ "Title" \in DOMAIN data /\ data["Title"] = TextractText
    /\ ProvidersOf(idx + 1) = <<"docai", "textract">>

ChainOrders == {<<>>, <<"docai">>, <<"textract">>, <<"docai", "textract">>}

\* C2: for each document every provider is invoked at most once and only in
\* forward order (Document AI, then Textract); after Document AI succeeded
\* Textract is not invoked; every document starts again at Document AI,
\* whatever failed before.
C2_ChainForwardOnly ==
    /\ \A k \in 1..Len(files) : ProvidersOf(k) \in ChainOrders
    /\ pc = "docai_init" => ProvidersOf(idx + 1) = <<>>
    /\ (pc = "returned" /\ DocaiReachable)
          => /\ ProvidersOf(idx + 1) # <<>>
             /\ ProvidersOf(idx + 1)[1] = "docai"
             /\ env.docai = "ok" => ProvidersOf(idx + 1) = <<"docai">>
    /\ (pc = "returned" /\ ~DocaiReachable) => ProvidersOf(idx + 1) = <<"textract">>

C2_Witness ==
    /\ pc = "returned" /\ idx = 1
    /\ ProvidersOf(1) = <<"docai", "textract">>
    /\ ProvidersOf(2) = <<"docai", "textract">>
    /\ env.docai = "unexpected"

\* no provider yields anything for the current document
AllProvidersFail == (~DocaiReachable \/ env.docai # "ok") /\ TextractText = EMPTY

\* number of PDFs among the first n listing entries
RECURSIVE PdfCount(_)
PdfCount(n) == IF n = 0 THEN 0 ELSE PdfCount(n - 1) + (IF IsPdfName(files[n].name) THEN 1 ELSE 0)

\* C3: when every provider fails, parse_with_docai returns an empty dict and
\* nothing is raised, whatever the kind of failure; process_pdf then goes on
\* with the record for "nothing extracted" and the batch is not aborted.
C3_AllFailReturnsEmpty ==
    /\ status # "error"
    /\ (pc = "returned" /\ AllProvidersFail) => Falsy(data)
    /\ pc \in {"idle", "done"} => Len(handed) = PdfCount(idx)
    /\ (pc = "idle" /\ idx > 0 /\ IsPdfName(files[idx].name)
          /\ (~(env.dinit /\ files[idx].exists) \/ env.docai # "ok")
          /\ extract_text_with_textract(files[idx], env) = EMPTY)
          => handed[Len(handed)] = [name |-> files[idx].name,
                                    rec |-> FallbackRecord(files[idx].name)]

C3_Witness ==
    /\ pc = "returned" /\ AllProvidersFail
    /\ DocaiReachable /\ env.docai = "apierr" /\ ~env.tcall
    /\ ProvidersOf(idx + 1) = <<"docai", "textract">>
    /\ Falsy(data)

---------------------------------------------------------------------------
(* Properties of the records and the sinks (SpecMain, SpecScript, SpecLegacy) *)

SinkCalled(sink) == \E i \in DOMAIN sinkCalls : sinkCalls[i].sink = sink

SinkFailed(sink) == \E i \in DOMAIN sinkCalls : sinkCalls[i].sink = sink /\ ~sinkCalls[i].ret

\* C4: every record handed to a sink has a Title key and a Date key, and its
\* Title is not the empty string.  main.py hands over records without either
\* key: the imported simple_metadata returns {} for a document without text.
C4_HandedRecordsHaveTitleAndDate ==
    \A i \in DOMAIN handed :
        /\ "Title" \in DOMAIN handed[i].rec
        /\ "Date" \in DOMAIN handed[i].rec
        /\ handed[i].rec["Title"] # EMPTY

\* C5: when documents of a batch fail during extraction, the run still ends
\* with a record for every other PDF of the folder and calls the sink with
\* those records.  extract_metadata.main stops at the first ocr_pdf that raises.
C5_OneFailureDoesNotAbortBatch ==
    (pc = "done" /\ env.tabs # <<>> /\ failed # {})
        => /\ Len(results) = PdfCount(Len(files)) - Cardinality(failed)
           /\ results # <<>> => \E i \in DOMAIN sinkCalls : sinkCalls[i].n = Len(results)

\* C6: a folder without PDF files, or a batch in which no document succeeded,
\* gives an empty result, and then neither update_sheets nor save_metadata is
\* called and nothing is written; no sink is ever called with an empty batch.
C6_EmptyBatchCallsNoSink ==
    /\ (pc \in {"loop", "done"} /\ GlobPdf(files) = <<>>) => results = <<>>
    /\ (pc \in {"loop", "done"} /\ Cardinality(failed) = Len(queue)) => results = <<>>
    /\ (pc = "done" /\ results = <<>>)
           => sinkCalls = <<>> /\ handed = <<>> /\ remote = <<>> /\ localf = <<>>
    /\ \A i \in DOMAIN sinkCalls : sinkCalls[i].n > 0

\* a run over two PDFs that both failed has ended without a sink call
C6_Witness ==
    /\ pc = "done" /\ status = "ok"
    /\ Len(queue) = 2 /\ Cardinality(failed) = 2
    /\ results = <<>> /\ sinkCalls = <<>>

\* C7: after a batch with at least one record went to update_sheets, the
\* records are in the sheet or in a local file.  update_sheets returns the
\* False of append_rows_to_tab and writes no file.
C7_RemoteFailureFallsBackToLocal ==
    (pc = "done" /\ SinkCalled("update_sheets"))
        => \/ \E i \in DOMAIN remote : remote[i].done
           \/ localf # <<>>

\* C8: a run whose save_metadata failed does not end as a successful run.
\* save_metadata returns False and main drops the return value.
C8_LocalWriteFailureSurfaced ==
    (pc = "done" /\ SinkFailed("save_metadata")) => status = "error"

\* C9: no record of a missing file is handed to the sink.  process_pdf of
\* metadata_extractor/src builds its fallback record when both providers
\* failed to open the file, and appends it to the sheet.
C9_MissingFileYieldsNoRecord ==
    \A i \in DOMAIN handed :
        \A j \in DOMAIN files : files[j].name = handed[i].name => files[j].exists

\* YYYY/MM/DD
YMDForm(str) ==
    /\ Len(str) = 10
    /\ DigitRun(str, 1) = 4 /\ str[5] = "/"
    /\ DigitRun(str, 6) = 2 /\ str[8] = "/"
    /\ DigitRun(str, 9) = 2

\* C10: the result of date extraction is a string YYYY/MM/DD, or the matched
\* substring, or "UNKNOWN", and it is "UNKNOWN" exactly when no pattern matches.
\* extract_metadata_from_text returns '' or YYYY-MM-DD.
C10_DateIsNormalizedVerbatimOrUnknown ==
    \A i \in DOMAIN results :
        /\ \/ YMDForm(results[i].out)
           \/ results[i].found # <<>> /\ results[i].out = results[i].found
           \/ results[i].out = UNKNOWN
        /\ results[i].out = UNKNOWN <=> results[i].found = <<>>

---------------------------------------------------------------------------
(* Properties of regex_date (SpecDate) *)

\* the results of date_helpers.regex_date
RegexDateRuns == {i \in DOMAIN results : results[i].fn = "regex_date"}

\* C11: when the first match in the text is a bare four-digit year, the date
\* is that year's first of January.  parse_date takes the month and the day
\* it was not given from the day of the run.
C11_BareYearIsFirstOfJanuary ==
    \A i \in RegexDateRuns :
        (/\ Len(results[i].found) = 4 /\ DigitRun(results[i].found, 1) = 4
         /\ ToInt(results[i].found) >= 1)
            => results[i].out = results[i].found \o YEAR_01_01

\* the leftmost YYYY-MM-DD of a text, as <<start, length>>
IsoSearch(text) ==
    LET M(i) == IF NumSepMatch(text, i, 4, 4, 2, 2, 2, 2) > 0
                   /\ text[i + 4] = "-" /\ text[i + 7] = "-"
                THEN 10 ELSE 0
    IN  Search(M, text, 1)

\* the text holds a valid ISO date and no date-like match before it
IsoOnly(text) ==
    /\ IsoSearch(text)[2] > 0
    /\ StrptimeYMD(Matched(text, IsoSearch(text)), "-").ok
    /\ DateSearch(text)[1] = IsoSearch(text)[1]

\* YYYY-MM-DD written with slashes
Slashed(iso) == [k \in 1..Len(iso) |-> IF iso[k] = "-" THEN "/" ELSE iso[k]]

\* C12: a text whose only date is an ISO date YYYY-MM-DD yields that date
\* as YYYY/MM/DD.  The pattern of regex_date matches the year alone, and the
\* month and the day of the result are those of the day of the run.
C12_IsoDateKeepsItsDay ==
    \A i \in RegexDateRuns :
        IsoOnly(data.text)
            => results[i].out = Slashed(Matched(data.text, IsoSearch(data.text)))

---------------------------------------------------------------------------
(* Properties of field extraction (SpecFields) *)

\* the runs of one extractor
RunsOf(fn) == {i \in DOMAIN results : results[i].fn = fn}

\* C13: two runs of the same extractor on the same text return the same
\* fields, on whatever days they run.  The Date of simple_metadata depends
\* on the day of the run: regex_date lets the parser fill month and day of a
\* bare year from the current date.
C13_SameTextSameFields ==
    \A i, j \in DOMAIN results :
        results[i].fn = results[j].fn
            => /\ results[i].raised = results[j].raised
               /\ results[i].val = results[j].val

\* C14: the simple_metadata that main.py imports returns, for every text
\* and without raising, a record with Title, Description and Date, all three
\* "UNKNOWN" for empty text.  The second definition of the name returns {}
\* for empty text and calls the undefined extract_date otherwise.
C14_ImportedSimpleMetadataContract ==
    \A i \in RunsOf("simple_metadata") :
        /\ ~results[i].raised
        /\ {"Title", "Description", "Date"} \subseteq DOMAIN results[i].val
        /\ data.text = EMPTY
               => \A k \in {"Title", "Description", "Date"} : results[i].val[k] = UNKNOWN

---------------------------------------------------------------------------
(* Properties of one document (SpecDoc) *)

\* no page has a score that counts
NoValidScore(ps) == \A k \in DOMAIN ps : ValidConfs(ps[k].confs) = <<>>

ExtractedDate == regex_date(ocr_pdf(data.file, data.o).text, platform.today, platform.pad)

\* C16: for a document that OCR could read, process_pdf returns a record
\* whose Document Date is the extracted date when that is a full date
\* YYYY/MM/DD, and <year>/01/01 otherwise.  process_pdf returns None for
\* every document that has text (simple_metadata raises), and a record it
\* does return has no Date, so that its Document Date is always the default.
C16_FullDateWinsOverYearDefault ==
    \A i \in DOMAIN results :
        (results[i].fn = "process_pdf" /\ ~ocr_pdf(data.file, data.o).raised)
            => /\ results[i].val.ok
               /\ results[i].val.rec["Document Date"] =
                      IF YMDForm(ExtractedDate) THEN ExtractedDate
                      ELSE ToDigits(args.year) \o YEAR_01_01

---------------------------------------------------------------------------
(* Properties of the extracted fields (SpecFields) *)

\* the number vol_issue_patterns[k] captures in the text (<<>> without a match)
PatternCapture(k, text) ==
    LET M(i) == LitNumMatch(text, i, VolIssuePatterns[k].lits)
        m == Search(M, text, 1)
    IN  IF m[2] > 0 THEN TrailingDigits(Matched(text, m)) ELSE <<>>

\* the capture of pattern k1, that of k2 only when k1 does not match
FirstWins(k1, k2, text) ==
    IF PatternCapture(k1, text) # <<>> THEN PatternCapture(k1, text)
    ELSE PatternCapture(k2, text)

\* C17: Volume is the number of the first Volume pattern that matches ("Vol."
\* before "Volume"), Issue that of the first Issue pattern ("No." before
\* "Issue"), and a field without a match stays empty.  The loop assigns the
\* field for every pattern that matches, so the last match wins.
C17_FirstVolumeIssueMatchWins ==
    \A i \in RunsOf("extract_metadata_from_text") :
        /\ results[i].val["Volume"] = FirstWins(1, 2, data.text)
        /\ results[i].val["Issue"] = FirstWins(3, 4, data.text)

\* the first line of the text that is non-blank after trimming, trimmed
RECURSIVE FirstNonBlankLine(_)
FirstNonBlankLine(ls) ==
    IF ls = <<>> THEN EMPTY
    ELSE IF Strip(Head(ls)) # EMPTY THEN Strip(Head(ls))
    ELSE FirstNonBlankLine(Tail(ls))

ExpectedTitle(text, fallback) ==
    IF FirstNonBlankLine(SplitNL(text, <<>>)) # EMPTY
    THEN FirstNonBlankLine(SplitNL(text, <<>>))
    ELSE fallback

TitleFallback(fn) ==
    IF fn = "extract_metadata_from_text" THEN SplitExtRoot(DateFileName) ELSE UNKNOWN

TitleVariants == {"script_simple_metadata", "simple_metadata", "extract_metadata_from_text"}

HasTitle(r) == ~r.raised /\ "Title" \in DOMAIN r.val

\* C18: every variant returns a Title, which is the first line that is
\* non-blank after trimming, in trimmed form, and UNKNOWN (simple_metadata)
\* or the filename without its extension (extract_metadata_from_text) when
\* the text has no such line; it is never empty.  simple_metadata as the
\* module date_helpers binds it returns no Title.
C18_TitleIsFirstNonBlankLine ==
    \A i \in DOMAIN results :
        results[i].fn \in TitleVariants
            => /\ HasTitle(results[i])
               /\ results[i].val["Title"] =
                      ExpectedTitle(data.text, TitleFallback(results[i].fn))
               /\ results[i].val["Title"] # EMPTY

\* the Title rule on the variants that return one
TitleRuleWhereReturned ==
    \A i \in DOMAIN results :
        (results[i].fn \in TitleVariants /\ HasTitle(results[i]))
            => /\ results[i].val["Title"] =
                      ExpectedTitle(data.text, TitleFallback(results[i].fn))
               /\ results[i].val["Title"] # EMPTY

\* the character budget of each variant's Description
DescriptionBudget(fn) ==
    IF fn = "script_simple_metadata" THEN DescriptionBudgetSimple
    ELSE IF fn = "extract_metadata_from_text" THEN DescriptionBudgetTextract
    ELSE DescriptionBudgetDocai

DescriptionVariants ==
    {"script_simple_metadata", "extract_metadata_from_text", "parse_with_docai"}

\* line breaks to spaces, cut to the budget, trimmed, UNKNOWN when empty
ExpectedDescription(text, budget) ==
    LET cut == Strip(Prefix([k \in 1..Len(text) |-> IF text[k] = NL THEN " " ELSE text[k]],
                            budget))
    IN  IF cut = EMPTY THEN UNKNOWN ELSE cut

\* C19: in every variant the Description is the text with its line breaks
\* turned into spaces, cut to the variant's budget and trimmed, UNKNOWN when
\* that leaves nothing, and never longer than the budget.  The two legacy
\* variants return the raw prefix of the text.
C19_DescriptionCollapsedCutTrimmed ==
    \A i \in DOMAIN results :
        results[i].fn \in DescriptionVariants
            => /\ results[i].val["Description"] =
                      ExpectedDescription(data.text, DescriptionBudget(results[i].fn))
               /\ Len(results[i].val["Description"]) <= DescriptionBudget(results[i].fn)

\* the Description rule on extract_metadata.simple_metadata alone
DescriptionRuleInScript ==
    \A i \in RunsOf("script_simple_metadata") :
        results[i].val["Description"] = ExpectedDescription(data.text, DescriptionBudgetSimple)

---------------------------------------------------------------------------
(* Properties of append_rows_to_tab (SpecSheets) *)

---------------------------------------------------------------------------
(* Properties of the remote writes (SpecLegacy, SpecSheets) *)

\* C21: an error of the API during append_metadata is not raised: the call
\* returns False, the run is not ended by it, and process_tab_pdfs goes on
\* to the documents left in the listing, so that every PDF passed so far has
\* had its call of append_metadata.
C21_WriteErrorReturnsFalseAndBatchGoesOn ==
    /\ status # "error"
    /\ \A i \in DOMAIN results :
           /\ ~results[i].raised
           /\ results[i].ret \in BOOLEAN
    /\ Len(remote) = Cardinality({i \in DOMAIN results : results[i].ret})
    /\ pc \in {"idle", "done"} => Len(results) = PdfCount(idx)
    /\ pc = "done" => idx = Len(files)

\* the second PDF of a listing has been written after the write of the first failed
C21_Witness ==
    /\ pc = "idle" /\ idx = 2
    /\ Len(results) = 2
    /\ ~results[1].ret /\ results[2].ret
    /\ Len(remote) = 1
    /\ remote[1].values[1][2] = handed[2].rec["Title"]

\* SheetsClient.append_rows_to_tab never raises, and returns False when the
\* API call fails
ClientWriteErrorReturnsFalse ==
    \A i \in DOMAIN results :
        results[i].fn = "SheetsClient.append_rows_to_tab"
            => /\ ~results[i].raised
               /\ \A k \in DOMAIN remote : ~remote[k].done => results[i].ret = FALSE

---------------------------------------------------------------------------
(* Properties of batch enumeration (SpecLegacy, SpecMain, SpecScript) *)

\* C22: the documents of a batch are processed in ascending order of their
\* filenames (the order of str), and their records reach the sink in that
\* order.  process_tab_pdfs walks os.listdir(tab_dir) as it comes, and the
\* order of that list is arbitrary.
C22_ProcessedInFilenameOrder ==
    \A i, j \in DOMAIN handed :
        i < j => StrLess(handed[i].name, handed[j].name)

\* the names of a sequence of files
NamesOf(l) == {l[i].name : i \in DOMAIN l}

\* C23: the documents of a batch are exactly the files of the folder whose
\* name ends in .pdf when case is ignored; a file B.PDF is among them.
\* process_folder selects with glob("*.pdf"), which compares case where the
\* file system does.
C23_PdfExtensionIgnoresCase ==
    (pc = "loop" /\ env.folder = "dir")
        => NamesOf(queue) = {files[i].name : i \in {k \in DOMAIN files : IsPdfName(files[k].name)}}

---------------------------------------------------------------------------
(* Properties of the SheetsClient methods (SpecClient) *)

RowMappingWithinRowLimit ==
    \A i \in DOMAIN results :
        results[i].fn = "get_row_mapping" =>
            LET r == results[i]
                asked == {r.filenames[k] : k \in DOMAIN r.filenames}
                fetched == remote # <<>> /\ remote[1].done
                column == IF fetched
                          THEN SubSeq(ColumnOf(env.sheets, r.tab_name), 1,
                                      IF Len(ColumnOf(env.sheets, r.tab_name)) < ROW_LIMIT
                                      THEN Len(ColumnOf(env.sheets, r.tab_name))
                                      ELSE ROW_LIMIT)
                          ELSE <<>>
                Occurs(f) == {k \in DOMAIN column : column[k] = <<f>>}
            IN  /\ ~r.raised
                /\ DOMAIN r.ret \subseteq asked
                /\ (r.tab_name = EMPTY \/ r.filenames = <<>>)
                       => remote = <<>> /\ DOMAIN r.ret = {}
                /\ ~fetched => DOMAIN r.ret = {}
                /\ fetched => \A f \in asked :
                                  IF Occurs(f) = {} THEN f \notin DOMAIN r.ret
                                  ELSE f \in DOMAIN r.ret /\ r.ret[f] \in Occurs(f)

\* the positions of the updates that have both keys
ValidUpdates(updates) ==
    {k \in DOMAIN updates : {"range", "values"} \subseteq DOMAIN updates[k]}

\* the j-th smallest element of a set of numbers
NthOf(S, j) == CHOOSE k \in S : Cardinality({m \in S : m < k}) = j - 1

\* C25: batch_update_cells never raises and sends at most one batchUpdate;
\* it returns True exactly when it sent one and that one succeeded; the
\* request has one entry per update with 'range' and 'values', in input
\* order, each range being the update's range after the quoted tab name and
\* "!"; with no tab name, no updates or no such update nothing is sent and
\* False is returned.
C25_BatchUpdateOneRequest ==
    \A i \in DOMAIN results :
        results[i].fn = "batch_update_cells" =>
            LET r == results[i]
                valid == ValidUpdates(r.updates)
            IN  /\ ~r.raised
                /\ Len(remote) <= 1
                /\ r.ret = TRUE <=> (Len(remote) = 1 /\ remote[1].done)
                /\ r.ret \in BOOLEAN
                /\ (r.tab_name = EMPTY \/ r.updates = <<>> \/ valid = {})
                       => remote = <<>> /\ r.ret = FALSE
                /\ remote # <<>>
                       => /\ remote[1].op = "values.batchUpdate"
                          /\ Len(remote[1].data) = Cardinality(valid)
                          /\ \A j \in DOMAIN remote[1].data :
                                 /\ remote[1].data[j].range =
                                        <<"'">> \o r.tab_name \o <<"'", "!">>
                                            \o r.updates[NthOf(valid, j)].range
                                 /\ remote[1].data[j].values =
                                        r.updates[NthOf(valid, j)].values

\* two updates sent in input order, B2 before A1, and True returned
C25_Witness ==
    /\ results # <<>>
    /\ results[1].fn = "batch_update_cells"
    /\ results[1].ret = TRUE
    /\ Len(remote) = 1 /\ remote[1].done
    /\ Len(remote[1].data) = 2
    /\ remote[1].data[1].range = <<"'", "B", "o", "x", "2", "7", "c", "'", "!", "B", "2">>
    /\ remote[1].data[2].range = <<"'", "B", "o", "x", "2", "7", "c", "'", "!", "A", "1">>

\* C29: every request of a client goes to the spreadsheet id given to the
\* constructor, or to the configured id when none was given.  get_all_tabs,
\* find_tab_by_identifier and append_rows_to_tab send SPREADSHEET_ID.
C29_RequestsGoToTheClientsSpreadsheet ==
    \A k \in DOMAIN remote : remote[k].spreadsheetId = ClientSpreadsheetId(env.sid)

---------------------------------------------------------------------------
(* Properties of page preprocessing (SpecDoc) *)

HelperBlankPageIsNotDeskewed ==
    \A i \in DOMAIN results :
        (results[i].fn = "preprocess_page" /\ results[i].page.blank)
            => /\ ~results[i].val.raised
               /\ results[i].val.image = "thresholded"

---------------------------------------------------------------------------
(* Properties of repeated writes to one tab (SpecAppend) *)

\* the rows of a sequence of batches, one after another
RECURSIVE AllRows(_)
AllRows(batches) ==
    IF batches = <<>> THEN <<>> ELSE Head(batches) \o AllRows(Tail(batches))

\* C27: after any sequence of writes to one tab with the default start row,
\* every row of every batch written is in the sheet: the sheet holds each
\* row value as often as the batches written so far do.  Every call writes
\* from row 3 on, over what the call before wrote.
C27_EarlierRowsSurviveLaterBatches ==
    \A v \in SheetRowValues :
        Cardinality({r \in DOMAIN data : data[r] = v})
            >= Cardinality({k \in DOMAIN AllRows(handed) : AllRows(handed)[k] = v})

---------------------------------------------------------------------------
(* Properties of the rows written (SpecMain, SpecScript) *)

\* C28: every row sent in an update of a range has as many values as the
\* range has columns, five for C to G.  update_sheets builds rows of seven
\* values: Filename, Title, Description, Date, Volume, Issue, Confidence.
C28_RowsFitTheRange ==
    \A k \in DOMAIN remote :
        remote[k].op = "update"
            => \A j \in DOMAIN remote[k].values :
                   Len(remote[k].values[j]) =
                       Ord(remote[k].last_col) - Ord(remote[k].first_col) + 1

---------------------------------------------------------------------------
(* Properties of the tab folders (SpecFolders) *)

\* C30: the folder process_tab_pdfs reads for a worksheet tab is the folder
\* ensure_folders_exist made for that tab, and it is found.  The first is
\* named by the tab name as it is, the second by sanitize_folder_name of it.
C30_ProcessReadsTheFolderEnsured ==
    \A i \in DOMAIN results :
        results[i].fn = "process_tab_pdfs"
            => /\ \E k \in DOMAIN queue :
                      /\ queue[k].tab = results[i].tab
                      /\ queue[k].folder = results[i].folder
               /\ results[i].found

\* the same for the tab names sanitize_folder_name leaves as they are
SameFolderForPlainTabNames ==
    \A i \in DOMAIN results :
        (results[i].fn = "process_tab_pdfs"
            /\ sanitize_folder_name(results[i].tab) = results[i].tab)
            => /\ \E k \in DOMAIN queue :
                      /\ queue[k].tab = results[i].tab
                      /\ queue[k].folder = results[i].folder
               /\ results[i].found

============================================================================
